---- MODULE Spec2Model ----
(***************************************************************************)
(* Model of the BNCS client of gowarcraft3 (network/bnet/bnet.go): the     *)
(* handshake calls DialWithConn, Logon, CreateAccount and ChangePassword,  *)
(* run one after another on one Client against an arbitrary server.        *)
(*                                                                         *)
(* One action is one I/O operation of the call (a Send or a NextPacket)    *)
(* together with everything the code does with its outcome up to the next  *)
(* I/O operation.  The server and the sockets are the environment: every   *)
(* Send may fail, every NextPacket returns an error or any packet.         *)
(*                                                                         *)
(* The chat state of the Client (channel, users) is changed by onChatEvent *)
(* alone, which runs whenever a chat event is fired: by Run in steady      *)
(* state, and by the read loop of a handshake step.  Spec is the Client    *)
(* making handshake calls, ChatSpec the logged-on Client running Run, and  *)
(* QuerySpec the same with an application that calls User() and Users().   *)
(* RunSpec is Run with its keep-alive task and the ticker, SaySpec a call  *)
(* of Say on a text, CapiSpec the round trip of a capi packet through its  *)
(* codec as TestPackets makes it.                                          *)
(***************************************************************************)
EXTENDS Integers, Sequences, FiniteSets, TLC

\* ---------------------------------------------------------------- bounds
MaxCalls == 2     \* handshake calls made on the Client, one after another
MaxNoise == 2     \* packets other than the awaited response, per call

\* ------------------------------------------------------------ vocabulary
None == "-"

Pkt(t, v, p) == [type |-> t, val |-> v, proof |-> p]
E(kind, code) == [kind |-> kind, code |-> code]

Nil      == E("nil", None)        \* a nil error: the call succeeded
Running  == E("running", None)    \* the call has not returned yet
Discarded == E("discarded", None) \* a result the code does not keep

Ops == {"DialWithConn", "Logon", "CreateAccount", "ChangePassword"}

Steps == {"AuthInfo", "AuthCheck", "Logon", "LogonProof", "CreateAccount",
          "ChangePass", "ChangePassProof", "EnterChat"}

\* the response type every handshake step waits for (the case of its switch)
Expected(step) ==
    CASE step = "AuthInfo"        -> "AuthInfoResp"
      [] step = "AuthCheck"       -> "AuthCheckResp"
      [] step = "Logon"           -> "AuthAccountLogonResp"
      [] step = "LogonProof"      -> "AuthAccountLogonProofResp"
      [] step = "CreateAccount"   -> "AuthAccountCreateResp"
      [] step = "ChangePass"      -> "AuthAccountChangePassResp"
      [] step = "ChangePassProof" -> "AuthAccountChangePassProofResp"
      [] step = "EnterChat"       -> "EnterChatResp"

\* result codes of package bncs
AuthSuccess == "AuthSuccess"
AuthResults == {AuthSuccess, "AuthInvalidVersion", "AuthCDKeyInUse"}
LogonSuccess == "LogonSuccess"
LogonResults == {LogonSuccess, "LogonInvalidAccount"}
LogonProofSuccess == "LogonProofSuccess"
LogonProofRequireEmail == "LogonProofRequireEmail"
LogonProofResults == {LogonProofSuccess, LogonProofRequireEmail,
                      "LogonProofPasswordIncorrect"}
AccountCreateSuccess == "AccountCreateSuccess"
AccountCreateResults == {AccountCreateSuccess, "AccountCreateNameExists"}

\* what the server can put in the fields the handshake looks at
Signatures   == {"sigGood", "sigBad"}
ServerProofs == {"proofGood", "proofBad"}
UniqueNames  == {"name#2"}
PingValues   == {1, 2}

Pings == {Pkt("Ping", v, None) : v \in PingValues}

\* the responses a server can give to the request of a step
Responses(step) ==
    CASE step = "AuthInfo"        -> {Pkt("AuthInfoResp", s, None) : s \in Signatures}
      [] step = "AuthCheck"       -> {Pkt("AuthCheckResp", r, None) : r \in AuthResults}
      [] step = "Logon"           -> {Pkt("AuthAccountLogonResp", r, None) : r \in LogonResults}
      [] step = "LogonProof"      -> {Pkt("AuthAccountLogonProofResp", r, p) :
                                        r \in LogonProofResults, p \in ServerProofs}
      [] step = "CreateAccount"   -> {Pkt("AuthAccountCreateResp", r, None) :
                                        r \in AccountCreateResults}
      [] step = "ChangePass"      -> {Pkt("AuthAccountChangePassResp", r, None) :
                                        r \in LogonResults}
      [] step = "ChangePassProof" -> {Pkt("AuthAccountChangePassProofResp", r, p) :
                                        r \in LogonProofResults,
                                        p \in ServerProofs \cup {"proofNew"}}
      [] step = "EnterChat"       -> {Pkt("EnterChatResp", n, None) : n \in UniqueNames}

\* a response that belongs to another step and arrives out of turn
Stray(step) ==
    IF step = "EnterChat" THEN Pkt("AuthInfoResp", "sigGood", None)
                          ELSE Pkt("EnterChatResp", "name", None)


\* errors of the environment
SendErrs == {E("ErrWriteTimeout", None)}
ErrTimeout == E("ErrReadTimeout", None)
ReadErrs == {ErrTimeout, E("ErrEOF", None)}
ErrClosed == E("ErrClosed", None)
ErrDial == E("ErrDial", None)
ErrExeInspect == E("ErrExeInspect", None)
ErrNLS == E("ErrNLS", None)
ErrCDKey == E("ErrInvalidCDKey", None)

\* errors of package bnet
ErrInvalidServerSig == E("ErrInvalidServerSig", None)
ErrPasswordVerification == E("ErrPasswordVerification", None)
AuthResultToError(r) == E("AuthResultError", r)
LogonResultToError(r) == E("LogonResultError", r)
LogonProofResultToError(r) == E("LogonProofResultError", r)
AccountCreateResultToError(r) == E("AccountCreateResultError", r)

\* requests
ProtocolGreeting == Pkt("ProtocolGreeting", None, None)
Req(t) == Pkt(t, None, None)

\* SRP contexts a call can hold (the names of its local variables)
Ctxs == {"srp", "oldSRP", "newSRP"}

Range(s) == {s[i] : i \in 1..Len(s)}

\* ------------------------------------------------------- chat vocabulary
MaxTime == 2      \* readings of the clock (time.Now) by the chat handler
MaxHold == 1      \* chat events handled while the application holds a result
MaxTicks == 3     \* ticks of the keep-alive ticker
MaxRuns == 2      \* runs of equal characters in the text given to Say
MaxStr == 2       \* bytes of a string in a capi payload
MaxRecs == 3      \* records of the replay given to w3gdump

\* user names as the server writes them, and strings.ToLower of each
Usernames == {"Bob", "bOB", "amy"}
ToLower(name) ==
    CASE name \in {"Bob", "bOB", "BOB", "bob"} -> "bob"
      [] name \in {"amy", "AMY"} -> "amy"
      [] OTHER -> name

\* bncs.ChatEventType
ChatTypes == {"ChatShowUser", "ChatJoin", "ChatLeave", "ChatWhisper", "ChatTalk",
              "ChatBroadcast", "ChatChannelInfo", "ChatUserFlagsUpdate",
              "ChatWhisperSent", "ChatChannelFull", "ChatChannelDoesNotExist",
              "ChatChannelRestricted", "ChatInfo", "ChatError", "ChatEmote"}

\* the two payloads a chat event can carry; every field differs between them
Variants == {1, 2}

\* bncs.ChatEvent
ChatEvent(T, name, v) ==
    [type |-> "ChatEvent", Type |-> T, Username |-> name,
     Text |-> IF v = 1 THEN "text1" ELSE "text2",
     UserFlags |-> v, ChannelFlags |-> 20 + v, Ping |-> 10 + v]

\* the chat events a server sends: a user is shown under either spelling of
\* the name and with either payload, and every other type of event comes in
\* one or two forms
ChatEvents ==
    {ChatEvent("ChatShowUser", "Bob", 1), ChatEvent("ChatShowUser", "bOB", 2),
     ChatEvent("ChatShowUser", "amy", 1), ChatEvent("ChatShowUser", "amy", 2)}
    \cup {ChatEvent(T, n, 2) : T \in {"ChatJoin", "ChatUserFlagsUpdate", "ChatLeave"},
                              n \in {"bOB", "amy"}}
    \cup {ChatEvent("ChatTalk", n, 1) : n \in {"bOB", "amy"}}
    \cup {ChatEvent("ChatEmote", "Bob", 2), ChatEvent("ChatWhisper", "amy", 2),
          ChatEvent("ChatChannelInfo", "", 1), ChatEvent("ChatWhisperSent", "", 1)}
    \cup {ChatEvent(T, "", 1) : T \in {"ChatChannelFull", "ChatChannelDoesNotExist",
                                       "ChatBroadcast"}}
    \cup {ChatEvent(T, "", 2) : T \in {"ChatChannelRestricted", "ChatInfo",
                                       "ChatError"}}

\* bnet.User
NewUser(name, stat, flags, ping, joined, seen) ==
    [Name |-> name, StatString |-> stat, Flags |-> flags, Ping |-> ping,
     Joined |-> joined, LastSeen |-> seen]

\* the events of package bnet
Channel(name, flags) == [type |-> "Channel", Name |-> name, Flags |-> flags]
UserJoined(u, already) == [type |-> "UserJoined", User |-> u, AlreadyInChannel |-> already]
UserUpdate(u) == [type |-> "UserUpdate", User |-> u]
UserLeft(u) == [type |-> "UserLeft", User |-> u]
Chat(u, content, T) == [type |-> "Chat", User |-> u, Content |-> content, Type |-> T]
Whisper(name, content, flags, ping) ==
    [type |-> "Whisper", Username |-> name, Content |-> content, Flags |-> flags,
     Ping |-> ping]
JoinError(chan, T) == [type |-> "JoinError", Channel |-> chan, Error |-> T]
SystemMessage(content, T) == [type |-> "SystemMessage", Content |-> content, Type |-> T]

Notifications == {"Channel", "UserJoined", "UserUpdate", "UserLeft", "Chat",
                  "Whisper", "JoinError", "SystemMessage"}

\* the chat event a server can send before its answer to the enter-chat request
ChatNoise(step) ==
    IF step = "EnterChat" THEN {ChatEvent("ChatChannelInfo", "", 1)} ELSE {}

\* the packets that can arrive in a step before the awaited response
Noise(step) ==
    (IF step = "AuthInfo" THEN Pings ELSE {Pkt("Ping", 1, None)})
    \cup {Stray(step)} \cup ChatNoise(step)

\* ----------------------------------------------------------------- state
VARIABLES
    cfg,          \* Client.Config
    UniqueName,   \* Client.UniqueName
    bconn,        \* Client.BNCSConn: the call whose connection is installed, or 0
    bsent,        \* Sends tried through Client.Send during this call
    op,           \* the handshake call in progress
    pc,           \* its position
    newPassword,  \* argument of ChangePassword
    conn,         \* the connection of the call (bncsconn): none/open/closed
    sent,         \* Sends tried on it, in order: [p: packet, err: what Send returned]
    rcvd,         \* packets NextPacket returned: [step, p], in order
    rerr,         \* the error NextPacket returned, if it did
    fired,        \* events given to Fire during this call, in order; under Run,
                  \* the events the handler of the last packet fired
    resp,         \* the packet each step returned to its caller
    srps,         \* SRP contexts of the call: [made, frees]
    defers,       \* deferred calls of the running function, in order
    result,       \* the error the call returned
    before,       \* UniqueName and bconn when the call began
    ncalls,       \* calls started so far
    channel,      \* Client.channel
    users,        \* Client.users: lower-cased name -> address of its User
    heap,         \* the User values in memory, by address
    now,          \* the last reading of the clock
    present,      \* history: the names the server has shown to be in the channel
    held,         \* what the application got from its last User() or Users()
    runpc,        \* the position of Run
    kapc,         \* the position of the keep-alive task
    tick,         \* ticker.C holds a tick
    stop,         \* number of signals held by the stop channel
    say,          \* the call of Say: its argument s and the error it returned
    chatmut,      \* Client.chatmut: who holds it
    handler,      \* onChatEvent as Run runs it: its position, what it fires,
                  \* and the call its callback makes
    dump,         \* a run of w3gdump: its flags, the replay, and what it did
    capi          \* TestPackets of package capi: pkt, buf, pkt2 and err

\* the state of a handshake call, the events it fired aside
callvars == <<cfg, UniqueName, bconn, bsent, op, pc, newPassword, conn, sent, rcvd,
              rerr, resp, srps, defers, result, before, ncalls>>

\* the chat state of the Client
chatvars == <<channel, users, heap, now, present>>

\* the state of Run and of its keep-alive task
runvars == <<runpc, kapc, tick, stop>>

\* the state of the tests of the codecs
testvars == <<capi>>

\* the lock of the chat state and the handler that takes it
lockvars == <<chatmut, handler>>

\* the state of the command-line tools
toolvars == <<dump>>

vars == <<callvars, fired, chatvars, held, runvars, say, testvars, lockvars, toolvars>>

CDKeySets == {<<"valid">>, <<"valid", "malformed">>}

Config(vs, sha, keys) ==
    [ServerAddr |-> "server", KeepAliveInterval |-> 30, VerifySignature |-> vs,
     SHA1Auth |-> sha, Password |-> "pw", CDKeys |-> keys]

\* the configurations the Client is built with: each flag on and off, the
\* CD keys well-formed and not
Configs == {Config(TRUE, FALSE, <<"valid">>),
            Config(FALSE, TRUE, <<"valid">>),
            Config(TRUE, TRUE, <<"valid", "malformed">>)}

\* a nil map
NoUsers == [k \in {} |-> None]

\* the application holds no result of User() or Users()
NotHeld == [call |-> None]

NoSRPs == [c \in Ctxs |-> [made |-> FALSE, frees |-> 0]]
NoResp == [s \in Steps |-> Pkt(None, None, None)]

\* no test of a codec runs
NoTest == capi = [pc |-> "none"]

\* Say is not called
NoSay == [s |-> <<>>, err |-> Nil]

\* Run has not been called
Idle == [pc |-> "idle"]
Unlocked == chatmut = "none" /\ handler = Idle
NoDump == dump = [pc |-> "none"]

NotRunning ==
    /\ runpc = "idle"
    /\ kapc = "none"
    /\ tick = FALSE
    /\ stop = 0

\* the Client that NewClient returns, its Config aside
NewClient ==
    /\ UniqueName = ""
    /\ bconn = 0
    /\ bsent = <<>>
    /\ op = None
    /\ pc = "idle"
    /\ newPassword = None
    /\ conn = "none"
    /\ sent = <<>>
    /\ rcvd = <<>>
    /\ rerr = Nil
    /\ fired = <<>>
    /\ resp = NoResp
    /\ srps = NoSRPs
    /\ defers = <<>>
    /\ result = Running
    /\ before = [UniqueName |-> "", bconn |-> 0]
    /\ ncalls = 0
    /\ channel = ""
    /\ users = NoUsers
    /\ heap = NoUsers
    /\ now = 0
    /\ present = {}
    /\ held = NotHeld
    /\ NotRunning
    /\ Unlocked
    /\ say = NoSay

Init ==
    /\ cfg \in Configs
    /\ NewClient
    /\ NoTest
    /\ NoDump

\* ------------------------------------------------- collaborators of bnet
\* network.BNCSConn.Send: fails on a connection that is not open, and may
\* fail (write timeout) on one that is
SendOutcomes(c) == IF c = "open" THEN {Nil} \cup SendErrs ELSE {ErrClosed}

\* VerifyServerSignature(ip, sig)
VerifyServerSignature(sig) == sig = "sigGood"

\* SRP.VerifyPassword(proof)
VerifyPassword(proof) == proof = "proofGood"

\* c.VerifyPassword(proof) in ChangePassword, which has two contexts: the
\* server's proof for the old password is proofGood, a proof for the new
\* password is proofNew
VerifyPasswordOf(c, proof) ==
    proof = (IF c = "newSRP" THEN "proofNew" ELSE "proofGood")

\* NewSHA1 never fails, NewNLS may
NewSRPOutcomes(sha1) == IF sha1 THEN {Nil} ELSE {Nil, ErrNLS}

\* CreateBNCSKeyInfo(key, clientToken, serverToken)
CreateBNCSKeyInfo(key) == IF key = "malformed" THEN ErrCDKey ELSE Nil

\* strings.ContainsRune(addr, ':')
HasPort(addr) == addr \in {"server:6112"}
AppendPort(addr) == IF addr = "server" THEN "server:6112" ELSE addr

\* --------------------------------------------------------------- helpers
DeferFree(c) == [call |-> "Free", on |-> c]
DeferClose   == [call |-> "Close", on |-> "bncsconn"]

\* the deferred calls d run when the function returns
RunDefers(d, s) ==
    [c \in Ctxs |->
        [s[c] EXCEPT !.frees = @ + Cardinality({i \in 1..Len(d) : d[i] = DeferFree(c)})]]

\* number of packets received in this call that were not the awaited response
NoiseCount ==
    Cardinality({i \in 1..Len(rcvd) : rcvd[i].p.type # Expected(rcvd[i].step)})

SameCall == UNCHANGED <<op, newPassword, before, ncalls, held, runvars, say, testvars, toolvars, lockvars>>
SameClient == UNCHANGED <<cfg, UniqueName, bconn>>
NoFire == UNCHANGED <<fired, bsent, chatvars>>
NoRecv == UNCHANGED <<rcvd, rerr, resp>>

\* the call goes on at position next
Goto(next) ==
    /\ pc' = next
    /\ UNCHANGED <<result, srps, defers, conn>>

\* the call returns e; c is the state of its connection at the return
\* statement, before the deferred calls run
Return(e, c) ==
    /\ pc' = "done"
    /\ result' = e
    /\ srps' = RunDefers(defers, srps)
    /\ conn' = IF DeferClose \in Range(defers) THEN "closed" ELSE c
    /\ defers' = <<>>

\* error paths of DialWithConn: bncsconn.Close(); return nil, err
\* (the caller, if any, then returns err as it is)
DialWithConnFail(e) == Return(e, "closed")

\* mutant: the error paths of Logon forget bncsconn.Close()
LogonFail_NoClose(e) == Return(e, conn)

\* error paths of Logon after Dial: bncsconn.Close(); return err
LogonFail(e) == Return(e, "closed")

\* error paths of CreateAccount and ChangePassword after Dial: return err
DeferredFail(e) == Return(e, conn)

\* conn.Send(p) on the connection of the call, with outcome o
Send(p, o) == sent' = Append(sent, [p |-> p, err |-> o])

\* NextPacket returned p in step
Recv(step, p) ==
    /\ rcvd' = Append(rcvd, [step |-> step, p |-> p])
    /\ rerr' = rerr

\* NextPacket returned the error e
RecvErr(e) == rerr' = e /\ UNCHANGED <<rcvd, resp>>

\* network.NoTimeout
NoTimeout == -1

\* the timeout of the NextPacket that follows the Send of a step, in seconds
FirstTimeout(step) == IF step \in {"Logon", "ChangePass"} THEN 15 ELSE 10

\* mutant: the reads of the loop have the timeout of the first
LoopTimeout_Bounded(step) == FirstTimeout(step)

\* the timeout of the NextPacket at the end of the loop
LoopTimeout(step) == NoTimeout

\* the timeout of the next NextPacket of a step: the step has read nothing
\* yet, or it is in its loop
Timeout(step) ==
    IF \A i \in 1..Len(rcvd) : rcvd[i].step # step THEN FirstTimeout(step)
    ELSE LoopTimeout(step)

\* the errors NextPacket(timeout) can return
NextPacketErrs(timeout) ==
    IF timeout = NoTimeout THEN ReadErrs \ {ErrTimeout} ELSE ReadErrs

\* mutant: the switch takes any response packet for the awaited one
Matches_AnyResponse(step, p) == p.type # "Ping"

\* the case of the type switch that returns the packet
Matches(step, p) == p.type = Expected(step)

\* ------------------------------------------------------ the chat handler
\* the Users the membership map points to
View == [k \in DOMAIN users |-> heap[users[k]]]

\* the addresses the map m and the result hd of User() point to
Live(m, hd) ==
    {m[k] : k \in DOMAIN m} \cup (IF hd.call = "User" /\ hd.ok THEN {hd.ptr} ELSE {})

\* the memory h with every value nothing points to collected
Collect(h, m, hd) == [a \in Live(m, hd) |-> h[a]]

\* the memory h with the value u stored at address a
Store(h, a, u) == [x \in DOMAIN h \cup {a} |-> IF x = a THEN u ELSE h[x]]

\* the address of the new value that is about to replace entry k of m: one
\* that no other entry of m and nothing the application holds points to
Alloc(m, k, hd) ==
    LET used == Live([x \in DOMAIN m \ {k} |-> m[x]], hd)
    IN  CHOOSE a \in 1..(Cardinality(used) + 1) : a \notin used

\* mutant: the map is keyed by the name as the server wrote it
Key_Raw(name) == name

\* the key of a user in b.users: strings.ToLower(pkt.Username)
Key(name) == ToLower(name)

\* what a case of the handler leaves behind: the chat state, the clock, and
\* the events it fired (out)
Effect(c, m, h, t, out) ==
    [channel |-> c, users |-> m, heap |-> h, now |-> t, out |-> out]

\* mutant: the channel-info case keeps the map
ResetUsers_Kept == users

\* b.users = nil
ResetUsers == NoUsers

\* case bncs.ChatChannelInfo
onChannelInfo(p) ==
    Effect(p.Text, ResetUsers, heap, now, <<Channel(p.Text, p.ChannelFlags)>>)

\* mutant: the entry is not deleted
Delete_Kept(m, k) == m

\* delete(b.users, key)
Delete(m, k) == [x \in DOMAIN m \ {k} |-> m[x]]

\* mutant: every user-shown or user-joined event is announced as a join
JoinOrUpdate_AlwaysJoined(known, u, T) == UserJoined(u, T = "ChatShowUser")

\* if p == nil { UserJoined } else { UserUpdate }
JoinOrUpdate(known, u, T) ==
    IF ~known THEN UserJoined(u, T = "ChatShowUser") ELSE UserUpdate(u)

\* case bncs.ChatShowUser, bncs.ChatJoin: the new User is built from the
\* event and the clock, takes Joined and LastSeen of the entry it replaces,
\* and is stored at an address of its own (b.users[key] = &u)
onShowUser(p) ==
    LET t == now + 1
        k == Key(p.Username)
        known == k \in DOMAIN users
        new == NewUser(p.Username, p.Text, p.UserFlags, p.Ping, t, t)
        u == IF known
             THEN [new EXCEPT !.Joined = heap[users[k]].Joined,
                              !.LastSeen = heap[users[k]].LastSeen]
             ELSE new
        a == Alloc(users, k, held)
        m == [x \in DOMAIN users \cup {k} |-> IF x = k THEN a ELSE users[x]]
    IN  Effect(channel, m, Store(heap, a, u), t, <<JoinOrUpdate(known, u, p.Type)>>)

\* mutant: the flags update also refreshes LastSeen
SetFlags_Seen(u, f) == [u EXCEPT !.Flags = f, !.LastSeen = now]

\* u.Flags = pkt.UserFlags
SetFlags(u, f) == [u EXCEPT !.Flags = f]

\* case bncs.ChatUserFlagsUpdate: the entry is changed where it is
onUserFlagsUpdate(p) ==
    LET k == Key(p.Username) IN
    IF k \in DOMAIN users
    THEN LET u == SetFlags(heap[users[k]], p.UserFlags)
         IN  Effect(channel, users, Store(heap, users[k], u), now, <<UserUpdate(u)>>)
    ELSE Effect(channel, users, heap, now, <<>>)

\* case bncs.ChatLeave
onLeave(p) ==
    LET k == Key(p.Username) IN
    Effect(channel, Delete(users, k), heap, now,
           IF k \in DOMAIN users THEN <<UserLeft(heap[users[k]])>> ELSE <<>>)

\* case bncs.ChatTalk, bncs.ChatEmote: LastSeen of a known sender is set where
\* the entry is; the event of an unknown sender is dropped
onTalk(p) ==
    LET k == Key(p.Username) IN
    IF k \in DOMAIN users
    THEN LET t == now + 1
             u == [heap[users[k]] EXCEPT !.LastSeen = t]
         IN  Effect(channel, users, Store(heap, users[k], u), t,
                    <<Chat(u, p.Text, p.Type)>>)
    ELSE Effect(channel, users, heap, now, <<>>)

\* mutant: the system message loses the type of the event
Forward_Untyped(p) ==
    CASE p.Type = "ChatWhisper" ->
            Whisper(p.Username, p.Text, p.UserFlags, p.Ping)
      [] p.Type \in {"ChatChannelFull", "ChatChannelDoesNotExist",
                     "ChatChannelRestricted"} ->
            JoinError(p.Text, p.Type)
      [] p.Type \in {"ChatBroadcast", "ChatInfo", "ChatError"} ->
            SystemMessage(p.Text, "ChatInfo")

\* the cases that only fire an event made from the packet
Forward(p) ==
    CASE p.Type = "ChatWhisper" ->
            Whisper(p.Username, p.Text, p.UserFlags, p.Ping)
      [] p.Type \in {"ChatChannelFull", "ChatChannelDoesNotExist",
                     "ChatChannelRestricted"} ->
            JoinError(p.Text, p.Type)
      [] p.Type \in {"ChatBroadcast", "ChatInfo", "ChatError"} ->
            SystemMessage(p.Text, p.Type)

\* onChatEvent: switch pkt.Type
onChatEvent(p) ==
    CASE p.Type = "ChatChannelInfo" -> onChannelInfo(p)
      [] p.Type \in {"ChatShowUser", "ChatJoin"} -> onShowUser(p)
      [] p.Type = "ChatUserFlagsUpdate" -> onUserFlagsUpdate(p)
      [] p.Type = "ChatLeave" -> onLeave(p)
      [] p.Type \in {"ChatTalk", "ChatEmote"} -> onTalk(p)
      [] p.Type \in {"ChatWhisper", "ChatChannelFull", "ChatChannelDoesNotExist",
                     "ChatChannelRestricted", "ChatBroadcast", "ChatInfo",
                     "ChatError"} ->
            Effect(channel, users, heap, now, <<Forward(p)>>)
      [] OTHER -> Effect(channel, users, heap, now, <<>>)

\* the names in the channel by what the server has sent, p being the last:
\* channel info begins a new channel, a user shown or joined is in it until
\* the user leaves
Present(p) ==
    CASE p.Type = "ChatChannelInfo" -> {}
      [] p.Type \in {"ChatShowUser", "ChatJoin"} -> present \cup {ToLower(p.Username)}
      [] p.Type = "ChatLeave" -> present \ {ToLower(p.Username)}
      [] OTHER -> present

\* the handler of b.On(&bncs.ChatEvent{}, b.onChatEvent) runs on p; log holds
\* the events fired before, and the handler adds its own
FireChatEvent(p, log) ==
    LET e == onChatEvent(p) IN
    /\ e.now <= MaxTime
    /\ channel' = e.channel
    /\ users' = e.users
    /\ heap' = Collect(e.heap, e.users, held)   \* held' points where held does
    /\ now' = e.now
    /\ fired' = log \o e.out
    /\ present' = Present(p)

AsyncError(src, e) == Pkt("AsyncError", src, e.kind)

\* onPing: b.Send(pkt) on the Client's own connection
onPing(p) ==
    \E o \in SendOutcomes(IF bconn = 0 THEN "none" ELSE "open") :
        /\ bsent' = Append(bsent, [p |-> p, err |-> o])
        /\ fired' = IF o = Nil THEN Append(fired, p)
                    ELSE fired \o <<p, AsyncError("onPing[Send]", o)>>
        /\ UNCHANGED chatvars

\* b.Fire(pkt) with the handlers of InitDefaultHandlers
Fire(p) ==
    CASE p.type = "Ping" -> onPing(p)
      [] p.type = "ChatEvent" -> FireChatEvent(p, Append(fired, p)) /\ UNCHANGED bsent
      [] OTHER -> fired' = Append(fired, p) /\ UNCHANGED <<bsent, chatvars>>

\* what NextPacket can return in step
Incoming(step) ==
    Responses(step) \cup (IF NoiseCount < MaxNoise THEN Noise(step) ELSE {})

\* -------------------------------------------------------------- the calls
NewPasswords == {"pw2"}

\* the application calls o on the Client; DialWithConn is given a connection
Call(o) ==
    /\ pc \in {"idle", "done"}
    /\ ncalls < MaxCalls
    /\ ncalls' = ncalls + 1
    /\ op' = o
    /\ newPassword' \in (IF o = "ChangePassword" THEN NewPasswords ELSE {None})
    /\ pc' = IF o = "DialWithConn" THEN "Greeting" ELSE "newSRP"
    /\ conn' = IF o = "DialWithConn" THEN "open" ELSE "none"
    /\ sent' = <<>> /\ rcvd' = <<>> /\ fired' = <<>> /\ bsent' = <<>>
    /\ resp' = NoResp
    /\ srps' = NoSRPs
    /\ defers' = <<>>
    /\ result' = Running
    /\ rerr' = Nil
    /\ before' = [UniqueName |-> UniqueName, bconn |-> bconn]
    /\ SameClient
    /\ UNCHANGED <<chatvars, held, runvars, say, testvars, toolvars, lockvars>>

\* mutant: the defer statement is missing
DeferSRP_Missing(c) == defers

\* defer srp.Free(), the statement after every successful newSRP
DeferSRP(c) == Append(defers, DeferFree(c))

\* srp, err := b.newSRP(b.Password); if err != nil { return err }; defer srp.Free()
\* (oldSRP in ChangePassword)
newSRP ==
    /\ pc = "newSRP"
    /\ LET c == IF op = "ChangePassword" THEN "oldSRP" ELSE "srp" IN
       \E o \in NewSRPOutcomes(cfg.SHA1Auth) :
          IF o = Nil
          THEN /\ srps' = [srps EXCEPT ![c].made = TRUE]
               /\ defers' = DeferSRP(c)
               /\ pc' = IF op = "ChangePassword" THEN "newSRP2" ELSE "Dial"
               /\ UNCHANGED <<result, conn>>
          ELSE Return(o, conn)
    /\ NoRecv /\ NoFire /\ SameClient /\ SameCall /\ UNCHANGED sent

\* ChangePassword: newSRP, err := b.newSRP(newPassword); defer newSRP.Free()
ChangePassword_newSRP ==
    /\ pc = "newSRP2"
    /\ \E o \in NewSRPOutcomes(cfg.SHA1Auth) :
          IF o = Nil
          THEN /\ srps' = [srps EXCEPT !["newSRP"].made = TRUE]
               /\ defers' = DeferSRP("newSRP")
               /\ pc' = "Dial"
               /\ UNCHANGED <<result, conn>>
          ELSE Return(o, conn)
    /\ NoRecv /\ NoFire /\ SameClient /\ SameCall /\ UNCHANGED sent

\* Dial: add the default port, resolve and connect
Dial ==
    /\ pc = "Dial"
    /\ cfg' = IF HasPort(cfg.ServerAddr) THEN cfg
              ELSE [cfg EXCEPT !.ServerAddr = AppendPort(@)]
    /\ \E o \in {Nil, ErrDial} :
          IF o = Nil
          THEN /\ conn' = "open"
               /\ pc' = "Greeting"
               /\ UNCHANGED <<result, srps, defers>>
          ELSE Return(o, conn)
    /\ NoRecv /\ NoFire /\ SameCall /\ UNCHANGED <<sent, UniqueName, bconn>>

\* DialWithConn: conn.Write([]byte{bncs.ProtocolGreeting}); the result of the
\* write is discarded, so the call goes on the same way whatever it was
DialWithConn_Greeting ==
    /\ pc = "Greeting"
    /\ \E o \in SendOutcomes(conn) : Send(ProtocolGreeting, Discarded)
    /\ Goto("SendAuthInfo")
    /\ NoRecv /\ NoFire /\ SameClient /\ SameCall

\* sendAuthInfo: conn.Send(&b.Platform)
sendAuthInfo_Send ==
    /\ pc = "SendAuthInfo"
    /\ \E o \in SendOutcomes(conn) :
          /\ Send(Req("AuthInfoReq"), o)
          /\ IF o = Nil THEN Goto("WaitAuthInfo") ELSE DialWithConnFail(o)
    /\ NoRecv /\ NoFire /\ SameClient /\ SameCall

\* mutant: the signature is checked whether or not b.VerifySignature is set
DialWithConn_AuthInfo_Always(p) ==
    IF ~VerifyServerSignature(p.val)
    THEN DialWithConnFail(ErrInvalidServerSig)
    ELSE Goto("SendAuthCheck")

\* DialWithConn after sendAuthInfo returned authInfo: the signature check
DialWithConn_AuthInfo(p) ==
    IF cfg.VerifySignature /\ ~VerifyServerSignature(p.val)
    THEN DialWithConnFail(ErrInvalidServerSig)
    ELSE Goto("SendAuthCheck")

\* sendAuthInfo: the read loop, which echoes pings itself
sendAuthInfo_Next ==
    /\ pc = "WaitAuthInfo"
    /\ \/ \E e \in NextPacketErrs(Timeout("AuthInfo")) :
             /\ RecvErr(e)
             /\ DialWithConnFail(e)
             /\ NoFire /\ UNCHANGED sent
       \/ \E p \in Incoming("AuthInfo") :
             /\ Recv("AuthInfo", p)
             /\ CASE p.type = "Ping" ->
                       /\ \E o \in SendOutcomes(conn) :
                             /\ Send(p, o)
                             /\ IF o = Nil THEN Goto(pc)
                                ELSE DialWithConnFail(o)
                       /\ NoFire /\ UNCHANGED resp
                  [] Matches("AuthInfo", p) ->
                       /\ resp' = [resp EXCEPT !["AuthInfo"] = p]
                       /\ DialWithConn_AuthInfo(p)
                       /\ NoFire /\ UNCHANGED sent
                  [] OTHER ->
                       /\ Fire(p)
                       /\ Goto(pc)
                       /\ UNCHANGED <<resp, sent>>
    /\ SameClient /\ SameCall

\* mutant: the error of CreateBNCSKeyInfo is dropped
CDKeysError_Dropped(keys) == Nil

\* sendAuthCheck: the loop over b.CDKeys returns the first error
CDKeysError(keys) ==
    IF \E i \in 1..Len(keys) : CreateBNCSKeyInfo(keys[i]) # Nil
    THEN ErrCDKey ELSE Nil

\* sendAuthCheck: inspect the executable, derive the key proofs, conn.Send(req)
sendAuthCheck_Send ==
    /\ pc = "SendAuthCheck"
    /\ \E x \in {Nil, ErrExeInspect} :
          IF x # Nil
          THEN DialWithConnFail(x) /\ UNCHANGED sent
          ELSE IF CDKeysError(cfg.CDKeys) # Nil
          THEN DialWithConnFail(CDKeysError(cfg.CDKeys)) /\ UNCHANGED sent
          ELSE \E o \in SendOutcomes(conn) :
                  /\ Send(Req("AuthCheckReq"), o)
                  /\ IF o = Nil THEN Goto("WaitAuthCheck")
                     ELSE DialWithConnFail(o)
    /\ NoRecv /\ NoFire /\ SameClient /\ SameCall

\* mutant: authCheck.Result is not looked at
AuthCheckFailed_Never(p) == FALSE

\* DialWithConn: if authCheck.Result != bncs.AuthSuccess
AuthCheckFailed(p) == p.val # AuthSuccess

\* mutant: the defer statement is missing
DeferConn_Missing(d) == d

\* defer bncsconn.Close(), the statement of CreateAccount and ChangePassword
\* after a successful Dial
DeferConn(d) == Append(d, DeferClose)

\* DialWithConn after sendAuthCheck returned authCheck, and what its caller
\* does first with the connection it gets
DialWithConn_AuthCheck(p) ==
    IF AuthCheckFailed(p)
    THEN DialWithConnFail(AuthResultToError(p.val))
    ELSE CASE op = "DialWithConn" -> Return(Nil, conn)
           [] op = "Logon" -> Goto("SendLogon")
           [] OTHER ->
                /\ defers' = DeferConn(defers)
                /\ pc' = IF op = "CreateAccount" THEN "SendCreateAccount"
                         ELSE "SendChangePass"
                /\ UNCHANGED <<result, srps, conn>>

\* ----------------------------------------------------------------- Logon
\* sendLogon: conn.Send(req)
sendLogon_Send ==
    /\ pc = "SendLogon"
    /\ \E o \in SendOutcomes(conn) :
          /\ Send(Req("AuthAccountLogonReq"), o)
          /\ IF o = Nil THEN Goto("WaitLogon") ELSE LogonFail(o)
    /\ NoRecv /\ NoFire /\ SameClient /\ SameCall

\* mutant: logon.Result is not looked at
Logon_Logon_Unchecked(p) == Goto("SendLogonProof")

\* Logon after sendLogon returned logon
Logon_Logon(p) ==
    IF p.val # LogonSuccess
    THEN LogonFail(LogonResultToError(p.val))
    ELSE Goto("SendLogonProof")

\* sendLogonProof: conn.Send(req)
sendLogonProof_Send ==
    /\ pc = "SendLogonProof"
    /\ \E o \in SendOutcomes(conn) :
          /\ Send(Req("AuthAccountLogonProofReq"), o)
          /\ IF o = Nil THEN Goto("WaitLogonProof") ELSE LogonFail(o)
    /\ NoRecv /\ NoFire /\ SameClient /\ SameCall

\* mutant: the counter-proof is not verified
Logon_Verify_Skipped(p) == Goto("SendNetGamePort")

\* Logon: if !srp.VerifyPassword(&proof.ServerPasswordProof) { close; return }
Logon_Verify(p) ==
    IF ~VerifyPassword(p.proof)
    THEN LogonFail(ErrPasswordVerification)
    ELSE Goto("SendNetGamePort")

\* mutant: the set-email request is sent after every accepted proof
Logon_Proof_AlwaysEmail(p) ==
    IF p.val \in {LogonProofSuccess, LogonProofRequireEmail}
    THEN Goto("SendSetEmail")
    ELSE LogonFail(LogonProofResultToError(p.val))

\* Logon after sendLogonProof returned proof: switch proof.Result
Logon_Proof(p) ==
    CASE p.val = LogonProofSuccess -> Logon_Verify(p)
      [] p.val = LogonProofRequireEmail -> Goto("SendSetEmail")
      [] OTHER -> LogonFail(LogonProofResultToError(p.val))

\* Logon, case LogonProofRequireEmail: bncsconn.Send(&bncs.SetEmail{}), then
\* the proof is verified
Logon_SetEmail ==
    /\ pc = "SendSetEmail"
    /\ \E o \in SendOutcomes(conn) :
          /\ Send(Req("SetEmail"), o)
          /\ IF o = Nil THEN Logon_Verify(resp["LogonProof"])
             ELSE LogonFail(o)
    /\ NoRecv /\ NoFire /\ SameClient /\ SameCall

\* sendEnterChat: conn.Send(&bncs.NetGamePort{Port: b.GamePort})
sendEnterChat_NetGamePort ==
    /\ pc = "SendNetGamePort"
    /\ \E o \in SendOutcomes(conn) :
          /\ Send(Req("NetGamePort"), o)
          /\ IF o = Nil THEN Goto("SendEnterChat") ELSE LogonFail(o)
    /\ NoRecv /\ NoFire /\ SameClient /\ SameCall

\* sendEnterChat: conn.Send(&bncs.EnterChatReq{})
sendEnterChat_Send ==
    /\ pc = "SendEnterChat"
    /\ \E o \in SendOutcomes(conn) :
          /\ Send(Req("EnterChatReq"), o)
          /\ IF o = Nil THEN Goto("WaitEnterChat") ELSE LogonFail(o)
    /\ NoRecv /\ NoFire /\ SameClient /\ SameCall

\* mutant: b.UniqueName is assigned before the join-channel request is sent
Logon_SetConn_NameFirst(o) ==
    /\ UniqueName' = resp["EnterChat"].val
    /\ bconn' = IF o = Nil THEN ncalls ELSE bconn

\* b.UniqueName = chat.UniqueName; b.SetConn(bncsconn.Conn(), ...): reached
\* when the Send of the join-channel request returned no error
Logon_SetConn(o) ==
    IF o = Nil
    THEN /\ UniqueName' = resp["EnterChat"].val
         /\ bconn' = ncalls
    ELSE UNCHANGED <<UniqueName, bconn>>

\* Logon: bncsconn.Send(&bncs.JoinChannel{}), then b.UniqueName and b.SetConn
Logon_JoinChannel ==
    /\ pc = "SendJoinChannel"
    /\ \E o \in SendOutcomes(conn) :
          /\ Send(Req("JoinChannel"), o)
          /\ Logon_SetConn(o)
          /\ IF o = Nil THEN Return(Nil, conn) ELSE LogonFail(o)
    /\ NoRecv /\ NoFire /\ SameCall /\ UNCHANGED cfg

\* --------------------------------------------------------- CreateAccount
\* srp.AccountCreate() draws a random salt and can fail
ErrRand == E("ErrRand", None)
AccountCreateOutcomes == {Nil, ErrRand}

\* sendCreateAccount: srp.AccountCreate(), conn.Send(req)
sendCreateAccount_Send ==
    /\ pc = "SendCreateAccount"
    /\ \E x \in AccountCreateOutcomes :
          IF x # Nil
          THEN DeferredFail(x) /\ UNCHANGED sent
          ELSE \E o \in SendOutcomes(conn) :
                  /\ Send(Req("AuthAccountCreateReq"), o)
                  /\ IF o = Nil THEN Goto("WaitCreateAccount")
                     ELSE DeferredFail(o)
    /\ NoRecv /\ NoFire /\ SameClient /\ SameCall

\* CreateAccount after sendCreateAccount returned create
CreateAccount_Create(p) ==
    IF p.val # AccountCreateSuccess
    THEN DeferredFail(AccountCreateResultToError(p.val))
    ELSE Return(Nil, conn)

\* -------------------------------------------------------- ChangePassword
\* sendChangePass: conn.Send(req)
sendChangePass_Send ==
    /\ pc = "SendChangePass"
    /\ \E o \in SendOutcomes(conn) :
          /\ Send(Req("AuthAccountChangePassReq"), o)
          /\ IF o = Nil THEN Goto("WaitChangePass") ELSE DeferredFail(o)
    /\ NoRecv /\ NoFire /\ SameClient /\ SameCall

\* ChangePassword after sendChangePass returned resp
ChangePassword_Resp(p) ==
    IF p.val # LogonSuccess
    THEN DeferredFail(LogonResultToError(p.val))
    ELSE Goto("SendChangePassProof")

\* sendChangePassProof: newSRP.AccountCreate(), conn.Send(req)
sendChangePassProof_Send ==
    /\ pc = "SendChangePassProof"
    /\ \E x \in AccountCreateOutcomes :
          IF x # Nil
          THEN DeferredFail(x) /\ UNCHANGED sent
          ELSE \E o \in SendOutcomes(conn) :
                  /\ Send(Req("AuthAccountChangePassProofReq"), o)
                  /\ IF o = Nil THEN Goto("WaitChangePassProof")
                     ELSE DeferredFail(o)
    /\ NoRecv /\ NoFire /\ SameClient /\ SameCall

\* mutant: require-email passes, as it does in Logon
ProofAccepted_Email(r) == r \in {LogonProofSuccess, LogonProofRequireEmail}

\* proof.Result != bncs.LogonProofSuccess is an error
ProofAccepted(r) == r = LogonProofSuccess

\* ChangePassword after sendChangePassProof returned proof
ChangePassword_Proof(p) ==
    IF ~ProofAccepted(p.val)
    THEN DeferredFail(LogonProofResultToError(p.val)) /\ SameClient
    ELSE IF ~VerifyPasswordOf("oldSRP", p.proof)
    THEN DeferredFail(ErrPasswordVerification) /\ SameClient
    ELSE /\ cfg' = [cfg EXCEPT !.Password = newPassword]
         /\ Return(Nil, conn)
         /\ UNCHANGED <<UniqueName, bconn>>

\* -------------------------------------------------------- the read loops
\* what the caller of a step does with the response the step returned
StepDone(step, p) ==
    CASE step = "AuthCheck"       -> DialWithConn_AuthCheck(p) /\ SameClient
      [] step = "Logon"           -> Logon_Logon(p) /\ SameClient
      [] step = "LogonProof"      -> Logon_Proof(p) /\ SameClient
      [] step = "EnterChat"       -> Goto("SendJoinChannel") /\ SameClient
      [] step = "CreateAccount"   -> CreateAccount_Create(p) /\ SameClient
      [] step = "ChangePass"      -> ChangePassword_Resp(p) /\ SameClient
      [] step = "ChangePassProof" -> ChangePassword_Proof(p)

\* what the caller of a step does with the error the step returned
StepFail(step, e) ==
    CASE step = "AuthCheck" -> DialWithConnFail(e)
      [] step \in {"Logon", "LogonProof", "EnterChat"} -> LogonFail(e)
      [] OTHER -> DeferredFail(e)

\* the read loop of the steps that have no case for pings
WaitLoop(step) ==
    \/ \E e \in NextPacketErrs(Timeout(step)) :
          /\ RecvErr(e)
          /\ StepFail(step, e)
          /\ NoFire /\ SameClient /\ UNCHANGED sent
    \/ \E p \in Incoming(step) :
          /\ Recv(step, p)
          /\ UNCHANGED sent
          /\ IF Matches(step, p)
             THEN /\ resp' = [resp EXCEPT ![step] = p]
                  /\ NoFire
                  /\ StepDone(step, p)
             ELSE /\ Fire(p)
                  /\ Goto(pc)
                  /\ SameClient
                  /\ UNCHANGED resp

sendAuthCheck_Next ==
    /\ pc = "WaitAuthCheck"
    /\ WaitLoop("AuthCheck")
    /\ SameCall

sendLogon_Next ==
    /\ pc = "WaitLogon"
    /\ WaitLoop("Logon")
    /\ SameCall

sendLogonProof_Next ==
    /\ pc = "WaitLogonProof"
    /\ WaitLoop("LogonProof")
    /\ SameCall

sendEnterChat_Next ==
    /\ pc = "WaitEnterChat"
    /\ WaitLoop("EnterChat")
    /\ SameCall

sendCreateAccount_Next ==
    /\ pc = "WaitCreateAccount"
    /\ WaitLoop("CreateAccount")
    /\ SameCall

sendChangePass_Next ==
    /\ pc = "WaitChangePass"
    /\ WaitLoop("ChangePass")
    /\ SameCall

sendChangePassProof_Next ==
    /\ pc = "WaitChangePassProof"
    /\ WaitLoop("ChangePassProof")
    /\ SameCall

\* ------------------------------------------------------------------ spec
Next ==
    \/ \E o \in Ops : Call(o)
    \/ newSRP
    \/ ChangePassword_newSRP
    \/ Dial
    \/ DialWithConn_Greeting
    \/ sendAuthInfo_Send
    \/ sendAuthInfo_Next
    \/ sendAuthCheck_Send
    \/ sendAuthCheck_Next
    \/ sendLogon_Send
    \/ sendLogon_Next
    \/ sendLogonProof_Send
    \/ sendLogonProof_Next
    \/ Logon_SetEmail
    \/ sendEnterChat_NetGamePort
    \/ sendEnterChat_Send
    \/ sendEnterChat_Next
    \/ Logon_JoinChannel
    \/ sendCreateAccount_Send
    \/ sendCreateAccount_Next
    \/ sendChangePass_Send
    \/ sendChangePass_Next
    \/ sendChangePassProof_Send
    \/ sendChangePassProof_Next

Spec == Init /\ [][Next]_vars

\* ------------------------------------------------ steady-state operation
\* a Logon that met an obliging server: every send went through and every
\* step got its successful answer at once
QuietSteps == <<"AuthInfo", "AuthCheck", "Logon", "LogonProof", "EnterChat">>

QuietAnswer(step) ==
    CASE step = "AuthInfo"   -> Pkt("AuthInfoResp", "sigGood", None)
      [] step = "AuthCheck"  -> Pkt("AuthCheckResp", AuthSuccess, None)
      [] step = "Logon"      -> Pkt("AuthAccountLogonResp", LogonSuccess, None)
      [] step = "LogonProof" -> Pkt("AuthAccountLogonProofResp", LogonProofSuccess,
                                    "proofGood")
      [] step = "EnterChat"  -> Pkt("EnterChatResp", "name#2", None)

QuietRequests ==
    <<"AuthInfoReq", "AuthCheckReq", "AuthAccountLogonReq",
      "AuthAccountLogonProofReq", "NetGamePort", "EnterChatReq", "JoinChannel">>

\* the Client when that Logon, its first call, has returned: the connection
\* is installed and Run can be called
LoggedOnConfig ==
    [Config(FALSE, TRUE, <<"valid">>) EXCEPT !.ServerAddr = AppendPort(@)]

LoggedOnCall ==
    /\ UniqueName = "name#2"
    /\ bconn = 1
    /\ bsent = <<>>
    /\ op = "Logon"
    /\ pc = "done"
    /\ newPassword = None
    /\ conn = "open"
    /\ sent = <<[p |-> ProtocolGreeting, err |-> Discarded]>>
              \o [i \in 1..Len(QuietRequests) |->
                    [p |-> Req(QuietRequests[i]), err |-> Nil]]
    /\ rcvd = [i \in 1..Len(QuietSteps) |->
                 [step |-> QuietSteps[i], p |-> QuietAnswer(QuietSteps[i])]]
    /\ rerr = Nil
    /\ fired = <<>>
    /\ resp = [s \in Steps |-> IF s \in Range(QuietSteps) THEN QuietAnswer(s)
                               ELSE NoResp[s]]
    /\ srps = [NoSRPs EXCEPT !["srp"] = [made |-> TRUE, frees |-> 1]]
    /\ defers = <<>>
    /\ result = Nil
    /\ before = [UniqueName |-> "", bconn |-> 0]
    /\ ncalls = 1

LoggedOn == cfg = LoggedOnConfig /\ LoggedOnCall

ChatInit ==
    /\ LoggedOn
    /\ channel = ""
    /\ users = NoUsers
    /\ heap = NoUsers
    /\ now = 0
    /\ present = {}
    /\ held = NotHeld
    /\ NotRunning
    /\ Unlocked
    /\ NoDump
    /\ say = NoSay
    /\ NoTest

\* Run: BNCSConn.Run reads the next packet, a chat event p, and fires it
Run_Dispatch(p) ==
    /\ bconn # 0
    /\ FireChatEvent(p, <<>>)
    /\ IF held = NotHeld THEN UNCHANGED held
       ELSE held.age < MaxHold /\ held' = [held EXCEPT !.age = @ + 1]
    /\ UNCHANGED <<callvars, runvars, say, testvars, toolvars, lockvars>>

Run_Next == \E p \in ChatEvents : Run_Dispatch(p)

\* the names the application looks up
LookupNames == {"BOB", "amy"}

\* the address of the value the application gets from User()
CopyAddr == 0

\* mutant: User returns the pointer that is in the map
CopyUser_Alias(a) == a

\* copy := *u; u = &copy
CopyUser(a) == CopyAddr

\* User(name): the lookup under chatmut, by strings.ToLower(name)
User(name) ==
    LET k == ToLower(name) IN
    /\ IF k \in DOMAIN users
       THEN LET ptr == CopyUser(users[k]) IN
            /\ held' = [call |-> "User", age |-> 0, ok |-> TRUE, ptr |-> ptr]
            /\ heap' = Collect(Store(heap, ptr, heap[users[k]]), users, held')
       ELSE /\ held' = [call |-> "User", age |-> 0, ok |-> FALSE, ptr |-> None]
            /\ heap' = Collect(heap, users, held')
    /\ UNCHANGED <<callvars, fired, channel, users, now, present, runvars, say, testvars, toolvars, lockvars>>

\* Users(): a new map with the value of every entry, filled under chatmut
Users ==
    /\ held' = [call |-> "Users", age |-> 0, res |-> View]
    /\ heap' = Collect(heap, users, held')
    /\ UNCHANGED <<callvars, fired, channel, users, now, present, runvars, say, testvars, toolvars, lockvars>>

\* the flags the application writes into what it holds
Scribble == 9

\* the application changes the User it got from User(), or the Users of the
\* map it got from Users()
Caller_Modify ==
    /\ \/ /\ held.call = "User" /\ held.ok
          /\ heap[held.ptr].Flags # Scribble
          /\ heap' = [heap EXCEPT ![held.ptr].Flags = Scribble]
          /\ UNCHANGED held
       \/ /\ held.call = "Users"
          /\ \E k \in DOMAIN held.res : held.res[k].Flags # Scribble
          /\ held' = [held EXCEPT !.res = [k \in DOMAIN @ |->
                                            [@[k] EXCEPT !.Flags = Scribble]]]
          /\ UNCHANGED heap
    /\ UNCHANGED <<callvars, fired, channel, users, now, present, runvars, say, testvars, toolvars, lockvars>>

\* the application lets go of what it holds
Caller_Release ==
    /\ held # NotHeld
    /\ held' = NotHeld
    /\ heap' = Collect(heap, users, held')
    /\ UNCHANGED <<callvars, fired, channel, users, now, present, runvars, say, testvars, toolvars, lockvars>>

\* Run alone
ChatNext == Run_Next

ChatSpec == ChatInit /\ [][ChatNext]_vars

\* Run, and an application that calls User() and Users() meanwhile
QueryNext ==
    \/ Run_Next
    \/ \E name \in LookupNames : User(name)
    \/ Users
    \/ Caller_Modify
    \/ Caller_Release

QuerySpec == ChatInit /\ [][QueryNext]_vars

\* ------------------------------------------- the lock of the chat state
\* the cases of onChatEvent that take chatmut
Locking == {"ChatChannelInfo", "ChatShowUser", "ChatJoin", "ChatUserFlagsUpdate",
            "ChatLeave", "ChatTalk", "ChatEmote"}

\* the chat events a callback fires on the Client
Nested == {ChatEvent("ChatLeave", "amy", 2), ChatEvent("ChatWhisper", "amy", 2)}

\* what the callback of a notification does before it returns: nothing, a
\* call of Channel(), User() or Users(), or a Fire of another chat event
Callbacks ==
    {[fn |-> "return"], [fn |-> "Channel"], [fn |-> "Users"]}
    \cup {[fn |-> "User", name |-> n] : n \in LookupNames}
    \cup {[fn |-> "Fire", pkt |-> q] : q \in Nested}

\* the call c takes chatmut
TakesLock(c) == c.fn \in {"Channel", "User", "Users"} \/ c.pkt.Type \in Locking

\* mutant: the case of ChatLeave does not unlock
Unlock_Missing(T) == IF T = "ChatLeave" THEN chatmut ELSE "none"

\* b.chatmut.Unlock(), the statement that ends the locked part of a case
Unlock(T) == "none"

\* onChatEvent on the chat event p that Run read: b.chatmut.Lock() in the
\* cases that have one, the event to fire in the others
onChatEvent_Lock(p) ==
    /\ bconn # 0
    /\ handler.pc = "idle"
    /\ onChatEvent(p).now <= MaxTime
    /\ IF p.Type \in Locking
       THEN /\ chatmut = "none"
            /\ chatmut' = "onChatEvent"
            /\ handler' = [pc |-> "locked", pkt |-> p]
       ELSE /\ chatmut' = chatmut
            /\ handler' = [pc |-> "Fire", out |-> onChatEvent(p).out]
    /\ UNCHANGED <<callvars, fired, chatvars, held, runvars, say, testvars, toolvars>>

\* the locked part of the case, up to b.chatmut.Unlock()
onChatEvent_Unlock ==
    /\ handler.pc = "locked"
    /\ LET p == handler.pkt
           e == onChatEvent(p)
       IN  /\ channel' = e.channel
           /\ users' = e.users
           /\ heap' = Collect(e.heap, e.users, held)
           /\ now' = e.now
           /\ present' = Present(p)
           /\ chatmut' = Unlock(p.Type)
           /\ handler' = [pc |-> "Fire", out |-> e.out]
    /\ UNCHANGED <<callvars, fired, held, runvars, say, testvars, toolvars>>

\* b.Fire(e), if the case has an event to fire: the callback of the
\* application runs inside Fire; the handler returns when it has
onChatEvent_Fire ==
    /\ handler.pc = "Fire"
    /\ fired' = handler.out
    /\ IF handler.out = <<>>
       THEN handler' = Idle
       ELSE \E c \in Callbacks :
               /\ c.fn = "Fire" => onChatEvent(c.pkt).now <= MaxTime
               /\ handler' = IF c.fn = "return" THEN Idle
                             ELSE [pc |-> "callback", e |-> handler.out[1], call |-> c]
    /\ UNCHANGED <<callvars, chatvars, held, runvars, say, testvars, toolvars, chatmut>>

\* the callback calls the Client: b.chatmut.Lock() of Channel, User, Users
\* or of the handler of the chat event it fires
Callback_Lock ==
    /\ handler.pc = "callback"
    /\ IF TakesLock(handler.call)
       THEN chatmut = "none" /\ chatmut' = "callback"
       ELSE chatmut' = chatmut
    /\ handler' = [handler EXCEPT !.pc = "called"]
    /\ UNCHANGED <<callvars, fired, chatvars, held, runvars, say, testvars, toolvars>>

\* what User(name) returns: the value of the entry of strings.ToLower(name)
Lookup(name) ==
    LET k == ToLower(name) IN
    IF k \in DOMAIN users THEN [ok |-> TRUE, u |-> heap[users[k]]] ELSE [ok |-> FALSE]

\* the call of the callback reads or changes the chat state and unlocks
Callback_Unlock ==
    /\ handler.pc = "called"
    /\ LET c == handler.call IN
       IF c.fn = "Fire"
       THEN LET e == onChatEvent(c.pkt) IN
            /\ channel' = e.channel
            /\ users' = e.users
            /\ heap' = Collect(e.heap, e.users, held)
            /\ now' = e.now
            /\ present' = Present(c.pkt)
            /\ fired' = fired \o e.out
            /\ chatmut' = IF TakesLock(c) THEN Unlock(c.pkt.Type) ELSE chatmut
            /\ handler' = [pc |-> "return", e |-> handler.e, call |-> c, seen |-> None]
       ELSE /\ handler' = [pc |-> "return", e |-> handler.e, call |-> c,
                           seen |-> CASE c.fn = "Channel" -> channel
                                      [] c.fn = "User" -> Lookup(c.name)
                                      [] c.fn = "Users" -> View]
            /\ chatmut' = "none"
            /\ UNCHANGED <<fired, chatvars>>
    /\ UNCHANGED <<callvars, held, runvars, say, testvars, toolvars>>

\* the callback returns, and with it Fire and the handler
Callback_Return ==
    /\ handler.pc = "return"
    /\ handler' = Idle
    /\ UNCHANGED <<callvars, fired, chatvars, held, runvars, say, testvars, toolvars, chatmut>>

LockNext ==
    \/ \E p \in ChatEvents : onChatEvent_Lock(p)
    \/ onChatEvent_Unlock
    \/ onChatEvent_Fire
    \/ Callback_Lock
    \/ Callback_Unlock
    \/ Callback_Return

LockSpec == ChatInit /\ [][LockNext]_vars

\* ------------------------------------------------ Run and its keep-alive
\* Config.KeepAliveInterval as the application set it before the handshake:
\* zero, or the 30 seconds of DefaultConfig
Intervals == {0, 30}

KeepAlive == Pkt("KeepAlive", None, None)

\* network.IsCloseError(err)
IsCloseError(e) == e = ErrClosed

\* mutant: stop = make(chan struct{}, 1)
HasRoom_Buffered(n) == n < 1

\* the channel of make(chan struct{}), holding n signals, takes another
\* without a receiver: it has no buffer
HasRoom(n) == FALSE

\* the logged-on Client before Run is called
RunInit ==
    /\ cfg \in {[LoggedOnConfig EXCEPT !.KeepAliveInterval = i] : i \in Intervals}
    /\ LoggedOnCall
    /\ channel = ""
    /\ users = NoUsers
    /\ heap = NoUsers
    /\ now = 0
    /\ present = {}
    /\ held = NotHeld
    /\ NotRunning
    /\ Unlocked
    /\ NoDump
    /\ say = NoSay
    /\ NoTest

\* Run up to the call of BNCSConn.Run: with a keep-alive interval, runKeepAlive
\* makes the stop channel and starts the task
Run_Start ==
    /\ runpc = "idle"
    /\ runpc' = "Run"
    /\ kapc' = IF cfg.KeepAliveInterval # 0 THEN "go" ELSE "none"
    /\ UNCHANGED <<callvars, fired, chatvars, held, say, testvars, toolvars, lockvars, tick, stop>>

\* BNCSConn.Run returns and the deferred stop, if any, runs: stop <- struct{}{}
\* waits for the task to receive unless the channel has room
Run_Return ==
    /\ runpc = "Run"
    /\ IF kapc = "none" THEN runpc' = "done" /\ UNCHANGED stop
       ELSE IF HasRoom(stop) THEN runpc' = "done" /\ stop' = stop + 1
       ELSE runpc' = "stop" /\ UNCHANGED stop
    /\ UNCHANGED <<callvars, fired, chatvars, held, say, testvars, toolvars, lockvars, kapc, tick>>

\* the task begins: time.NewTicker(b.KeepAliveInterval)
runKeepAlive_NewTicker ==
    /\ kapc = "go"
    /\ kapc' = "select"
    /\ UNCHANGED <<callvars, fired, chatvars, held, say, testvars, toolvars, lockvars, runpc, tick, stop>>

\* the ticker puts a tick into ticker.C, which holds one at most
Ticker_Tick ==
    /\ kapc \in {"select", "Send"}
    /\ ~tick
    /\ Len(bsent) < MaxTicks
    /\ tick' = TRUE
    /\ UNCHANGED <<callvars, fired, chatvars, held, say, testvars, toolvars, lockvars, runpc, kapc, stop>>

\* case <-ticker.C: the task calls b.Send(&pkt)
runKeepAlive_Tick ==
    /\ kapc = "select"
    /\ tick
    /\ tick' = FALSE
    /\ kapc' = "Send"
    /\ bsent' = Append(bsent, [p |-> KeepAlive, err |-> Running])
    /\ UNCHANGED <<cfg, UniqueName, bconn, op, pc, newPassword, conn, sent, rcvd,
                   rerr, resp, srps, defers, result, before, ncalls>>
    /\ UNCHANGED <<fired, chatvars, held, say, testvars, toolvars, lockvars, runpc, stop>>

\* mutant: every failed Send is reported
Report_Always(o) == o # Nil

\* err != nil && !network.IsCloseError(err)
Report(o) == o # Nil /\ ~IsCloseError(o)

\* b.Send returns o, whatever has become of the connection meanwhile; the
\* task fires an AsyncError or not and is back at the select
runKeepAlive_Sent ==
    /\ kapc = "Send"
    /\ \E o \in SendOutcomes("open") \cup SendOutcomes("closed") :
          /\ bsent' = [bsent EXCEPT ![Len(bsent)].err = o]
          /\ fired' = IF Report(o)
                      THEN Append(fired, AsyncError("runKeepAlive[Send]", o))
                      ELSE fired
    /\ kapc' = "select"
    /\ UNCHANGED <<cfg, UniqueName, bconn, op, pc, newPassword, conn, sent, rcvd,
                   rerr, resp, srps, defers, result, before, ncalls>>
    /\ UNCHANGED <<chatvars, held, say, testvars, toolvars, lockvars, runpc, tick, stop>>

\* mutant: break, which leaves the select and not the loop
OnStop_Break == "select"

\* where the task goes on after case <-stop: ticker.Stop(); return
OnStop == "Stop"

\* case <-stop: the task takes the signal, out of the channel or from the
\* stop function that waits to hand it over, which then returns
runKeepAlive_Stop ==
    /\ kapc = "select"
    /\ IF stop > 0 THEN stop' = stop - 1 /\ UNCHANGED runpc
       ELSE runpc = "stop" /\ runpc' = "done" /\ UNCHANGED stop
    /\ kapc' = OnStop
    /\ UNCHANGED <<callvars, fired, chatvars, held, say, testvars, toolvars, lockvars, tick>>

\* ticker.Stop(); return
runKeepAlive_Exit ==
    /\ kapc = "Stop"
    /\ kapc' = "exit"
    /\ UNCHANGED <<callvars, fired, chatvars, held, say, testvars, toolvars, lockvars, runpc, tick, stop>>

RunNext ==
    \/ Run_Start
    \/ Run_Return
    \/ runKeepAlive_NewTicker
    \/ Ticker_Tick
    \/ runKeepAlive_Tick
    \/ runKeepAlive_Sent
    \/ runKeepAlive_Stop
    \/ runKeepAlive_Exit

RunSpec == RunInit /\ [][RunNext]_vars

\* The task is a goroutine of its own and is scheduled; every Send returns;
\* a select whose stop case is ready again and again takes it in the end,
\* the choice between ready cases being random.  When BNCSConn.Run returns
\* is up to the connection, and when the ticker ticks is up to the clock.
RunFairSpec ==
    /\ RunSpec
    /\ WF_vars(runKeepAlive_NewTicker)
    /\ WF_vars(runKeepAlive_Sent)
    /\ SF_vars(runKeepAlive_Stop)
    /\ WF_vars(runKeepAlive_Exit)

\* ---------------------------------------------------- FilterChat and Say
\* A string is a sequence of runs [c, n]: n times a character of kind c.
\*   "a"     a printable ASCII character
\*   "e2"    a printable character of two bytes in UTF-8
\*   "nl"    a control character
\*   "emoji" an emoji of emoji.CodeMap(), four bytes
\*   "bad"   a byte that is not part of a valid UTF-8 sequence
\*   "fffd"  U+FFFD, three bytes
Chars == {"a", "e2", "nl", "emoji", "bad"}

\* lengths of runs, as they matter to a limit of 254 bytes
Counts == {1, 127, 254}

Texts == UNION {[1..n -> [c : Chars, n : Counts]] : n \in 0..MaxRuns}

\* number of bytes of a character in UTF-8
Width(c) ==
    CASE c = "e2" -> 2
      [] c = "emoji" -> 4
      [] c = "fffd" -> 3
      [] OTHER -> 1

\* the rune that ranging over the string yields for c: utf8.RuneError for a
\* byte that is not valid UTF-8
Rune(c) == IF c = "bad" THEN "fffd" ELSE c

\* unicode.IsPrint(r): letters, marks, numbers, punctuation, symbols (among
\* them U+FFFD and the emoji) and the ASCII space
IsPrint(r) == r # "nl"

\* len(s)
RECURSIVE ByteLen(_)
ByteLen(s) == IF s = <<>> THEN 0 ELSE s[1].n * Width(s[1].c) + ByteLen(Tail(s))

\* the length of the text that emoji.CodeMap() has for an emoji (":smile:")
EmojiText == 7

\* emojiToText.Replace(s): every emoji of the code map becomes its text
RECURSIVE Replace(_)
Replace(s) ==
    IF s = <<>> THEN <<>>
    ELSE (IF s[1].c = "emoji" THEN <<[c |-> "a", n |-> s[1].n * EmojiText]>>
          ELSE <<s[1]>>) \o Replace(Tail(s))

\* mutant: the mapping returns every rune as it is
Strip_Nothing(r) == FALSE

\* the mapping given to strings.Map returns -1
Strip(r) == ~IsPrint(r)

\* strings.Map(mapping, s): runes mapped to -1 are dropped, the others are
\* written in UTF-8, an invalid byte as U+FFFD
RECURSIVE Map(_)
Map(s) ==
    IF s = <<>> THEN <<>>
    ELSE (IF Strip(Rune(s[1].c)) THEN <<>>
          ELSE <<[c |-> Rune(s[1].c), n |-> s[1].n]>>) \o Map(Tail(s))

\* s[:k]: the first k bytes of s; the bytes of a character that is cut are
\* not valid UTF-8 any more
RECURSIVE Slice(_, _)
Slice(s, k) ==
    IF s = <<>> \/ k = 0 THEN <<>>
    ELSE LET w == Width(s[1].c)
             bytes == s[1].n * w
         IN  IF bytes <= k THEN <<s[1]>> \o Slice(Tail(s), k - bytes)
             ELSE (IF k \div w > 0 THEN <<[c |-> s[1].c, n |-> k \div w]>> ELSE <<>>)
                  \o (IF k % w > 0 THEN <<[c |-> "bad", n |-> k % w]>> ELSE <<>>)

\* if len(s) > 254 { s = s[:254] }
Truncate(s) == IF ByteLen(s) > 254 THEN Slice(s, 254) ELSE s

FilterChat(s) == Truncate(Map(Replace(s)))

ChatCommand(text) == Pkt("ChatCommand", text, None)

\* the logged-on Client when the application calls Say(s)
SayInit ==
    /\ LoggedOn
    /\ channel = ""
    /\ users = NoUsers
    /\ heap = NoUsers
    /\ now = 0
    /\ present = {}
    /\ held = NotHeld
    /\ NotRunning
    /\ Unlocked
    /\ NoDump
    /\ say \in [s : Texts, err : {Running}]
    /\ NoTest

\* mutant: the test for the empty text is missing
IsEmpty_Never(s) == FALSE

\* len(s) == 0
IsEmpty(s) == ByteLen(s) = 0

\* Say(s): the filtered text, unless it is empty, goes to b.SendRL (rl), whose
\* error Say returns
Say ==
    /\ say.err = Running
    /\ LET s == FilterChat(say.s) IN
       IF IsEmpty(s)
       THEN say' = [say EXCEPT !.err = Nil] /\ UNCHANGED bsent
       ELSE \E o \in SendOutcomes("open") \cup SendOutcomes("closed") :
               /\ bsent' = Append(bsent, [p |-> ChatCommand(s), err |-> o,
                                          rl |-> TRUE])
               /\ say' = [say EXCEPT !.err = o]
    /\ UNCHANGED <<cfg, UniqueName, bconn, op, pc, newPassword, conn, sent, rcvd,
                   rerr, resp, srps, defers, result, before, ncalls>>
    /\ UNCHANGED <<fired, chatvars, held, runvars, testvars, toolvars, lockvars>>

SayNext == Say

SaySpec == SayInit /\ [][SayNext]_vars

\* -------------------------------------------------- the capi packet codec
\* the bytes of strings: none of them NUL
Letters == {65, 66}

Strings == UNION {[1..n -> Letters] : n \in 0..MaxStr}

\* the commands of the registry and the number of strings of their payload
Registry == (1 :> 1) @@ (2 :> 2) @@ (3 :> 0)

\* a command the registry does not have
RandomCommand == 9

RequestIDs == {0, 123, 300}

\* Packet.Status: nil, capi.Success or another status [Area, Code]
Statuses == {<<>>, <<0, 0>>, <<8, 1>>}

\* payloads: a struct of the type of the command, its fields in order, or a
\* map of at most one key
Payloads(cmd) ==
    IF cmd \in DOMAIN Registry
    THEN [type : {cmd}, fields : [1..Registry[cmd] -> Strings]]
    ELSE [type : {"map"}, fields : {<<>>} \cup [1..2 -> Strings]]

Packets ==
    UNION {[Command : {cmd}, RequestID : RequestIDs, Status : Statuses,
            Payload : Payloads(cmd)] : cmd \in DOMAIN Registry \cup {RandomCommand}}

\* the protocol signature
Signature == 255

\* little-endian numbers
U16(n) == <<n % 256, n \div 256>>
U32(n) == U16(n % 65536) \o U16(n \div 65536)
ReadU16(b, i) == b[i] + 256 * b[i + 1]
ReadU32(b, i) == ReadU16(b, i) + 65536 * ReadU16(b, i + 2)

\* NUL-terminated strings, one after the other
RECURSIVE WriteNulStrings(_)
WriteNulStrings(f) ==
    IF f = <<>> THEN <<>> ELSE f[1] \o <<0>> \o WriteNulStrings(Tail(f))

\* the index of the first NUL of b
RECURSIVE Nul(_, _)
Nul(b, i) == IF i > Len(b) \/ b[i] = 0 THEN i ELSE Nul(b, i + 1)

RECURSIVE ReadNulStrings(_)
ReadNulStrings(b) ==
    IF b = <<>> THEN <<>>
    ELSE LET n == Nul(b, 1) IN
         <<SubSeq(b, 1, n - 1)>> \o ReadNulStrings(SubSeq(b, n + 1, Len(b)))

\* the payload of a frame: request id, status, fields
Body(pkt) ==
    U32(pkt.RequestID) \o <<Len(pkt.Status)>> \o pkt.Status
        \o WriteNulStrings(pkt.Payload.fields)

\* mutant: the length that is filled in is that of the payload
FrameLen_Payload(body) == Len(body)

\* the total length of a frame
FrameLen(body) == 4 + Len(body)

\* SerializePacket(buf, pkt): signature, command, length, payload
SerializePacket(buf, pkt) ==
    buf \o <<Signature, pkt.Command>> \o U16(FrameLen(Body(pkt))) \o Body(pkt)

ErrMalformed == E("ErrMalformedFrame", None)

\* the decoder of a command: the struct of the registry, or a map for a
\* command that is not there
DecodePayload(cmd, fields) ==
    [type |-> IF cmd \in DOMAIN Registry THEN cmd ELSE "map", fields |-> fields]

\* DeserializePacket(buf): the packet of the first frame of buf, and what is
\* left of buf
DeserializePacket(buf) ==
    IF Len(buf) < 4 \/ buf[1] # Signature
       \/ ReadU16(buf, 3) > Len(buf) \/ ReadU16(buf, 3) < 9
    THEN [err |-> ErrMalformed, buf |-> buf]
    ELSE LET n == ReadU16(buf, 3)
             ns == buf[9]
             fields == ReadNulStrings(SubSeq(buf, 10 + ns, n))
         IN  IF 9 + ns > n
                \/ (buf[2] \in DOMAIN Registry /\ Len(fields) # Registry[buf[2]])
             THEN [err |-> ErrMalformed, buf |-> buf]
             ELSE [err |-> Nil,
                   buf |-> SubSeq(buf, n + 1, Len(buf)),
                   pkt |-> [Command |-> buf[2],
                            RequestID |-> ReadU32(buf, 5),
                            Status |-> SubSeq(buf, 10, 9 + ns),
                            Payload |-> DecodePayload(buf[2], fields)]]

\* TestPackets: a packet and an empty buffer
CapiInit ==
    /\ cfg = Config(TRUE, FALSE, <<"valid">>)
    /\ NewClient
    /\ capi \in [pc : {"start"}, pkt : Packets, buf : {<<>>}]
    /\ NoDump

\* capi.SerializePacket(&buf, pkt)
TestPackets_Serialize ==
    /\ capi.pc = "start"
    /\ capi' = [capi EXCEPT !.pc = "serialized",
                            !.buf = SerializePacket(@, capi.pkt)]
    /\ UNCHANGED <<callvars, fired, chatvars, held, runvars, say, lockvars, toolvars>>

\* pkt2, err = capi.DeserializePacket(&buf)
TestPackets_Deserialize ==
    /\ capi.pc = "serialized"
    /\ LET r == DeserializePacket(capi.buf) IN
       capi' = [pc |-> "done", pkt |-> capi.pkt, buf |-> r.buf, err |-> r.err,
                pkt2 |-> IF r.err = Nil THEN r.pkt ELSE None]
    /\ UNCHANGED <<callvars, fired, chatvars, held, runvars, say, lockvars, toolvars>>

CapiNext ==
    \/ TestPackets_Serialize
    \/ TestPackets_Deserialize

CapiSpec == CapiInit /\ [][CapiNext]_vars

\* -------------------------------------------------------------- w3gdump
\* the types of w3g.Record that main tells apart, and one of the others
RecordTypes == {"ChatMessage", "SlotInfo", "CountDownStart", "CountDownEnd",
                "GameStart", "TimeSlot"}

\* the slots of a SlotInfo record: Team and Color
SlotData == <<[Team |-> 0, Color |-> 5], [Team |-> 12, Color |-> 7],
              [Team |-> 1, Color |-> 0]>>

Record(T) == IF T = "SlotInfo" THEN [type |-> T, Slots |-> SlotData] ELSE [type |-> T]

\* the replays: the records data.ForEach decodes, in order
Replays == UNION {[1..n -> {Record(T) : T \in RecordTypes}] : n \in 0..MaxRecs}

\* hdr.GameVersion.Version
Versions == {28, 29}

\* var maxp = uint8(24); if hdr.GameVersion.Version < 29 { maxp = uint8(12) }
MaxPlayers(version) == IF version < 29 THEN 12 ELSE 24

\* case *w3g.SlotInfo: the slots of a team below maxp are numbered
\* 0, 1, ... in Color, in the order of the slots; the others are left alone
SaneColors(slots, maxp) ==
    [i \in DOMAIN slots |->
        IF slots[i].Team >= maxp THEN slots[i]
        ELSE [slots[i] EXCEPT !.Color =
                 Cardinality({j \in 1..(i - 1) : slots[j].Team < maxp})]]

\* the record r as the callback leaves it when there is an encoder
Sanitized(r, maxp) ==
    IF r.type = "SlotInfo" THEN [r EXCEPT !.Slots = SaneColors(@, maxp)] ELSE r

\* mutant: chat messages are written as well
Write_All(r) == TRUE

\* var write = true; case *w3g.ChatMessage: write = false
Write(r) == r.type # "ChatMessage"

\* mutant: only the start of the game ends the header
EndsHeader_GameStart(r) == r.type = "GameStart"

\* case *w3g.CountDownStart, *w3g.CountDownEnd, *w3g.GameStart
EndsHeader(r) == r.type \in {"CountDownStart", "CountDownEnd", "GameStart"}

ErrCreate == E("ErrCreate", None)
ErrWrite == E("ErrWrite", None)
ErrDecode == E("ErrDecode", None)
errBreakEarly == E("errBreakEarly", None)

\* what was printed, in order: the header hdr, and the records by their
\* number in the replay
Header == [hdr |-> TRUE]
Printed(k) == [k |-> k]

\* main after w3g.DecodeHeader, with its flags and the replay it was given
DumpInit ==
    /\ cfg = Config(TRUE, FALSE, <<"valid">>)
    /\ NewClient /\ NoTest
    /\ dump \in [pc : {"start"}, sanitize : BOOLEAN, header : BOOLEAN,
                 version : Versions, recs : Replays, n : {0}, skip : {FALSE},
                 out : {<<>>}, printed : {<<>>}, err : {Nil}]

NoDumpChange ==
    UNCHANGED <<callvars, fired, chatvars, held, runvars, say, testvars, lockvars>>

\* logErr.Fatal: the process exits at once
Fatal(e) == dump' = [dump EXCEPT !.pc = "fatal", !.err = e]

\* if *sanitize != "": os.Create, w3g.NewEncoder; then print(hdr)
main_Create ==
    /\ dump.pc = "start"
    /\ \E o \in IF dump.sanitize THEN {Nil, ErrCreate} ELSE {Nil} :
          IF o # Nil THEN Fatal(o)
          ELSE dump' = [dump EXCEPT !.pc = "ForEach", !.printed = <<Header>>]
    /\ NoDumpChange

\* the callback of data.ForEach on the record r, number k of the replay;
\* o is what e.WriteRecord returns if it is called.  The result is main
\* after the callback has returned and ForEach has acted on what it returned.
Callback(d, k, r, o) ==
    LET v == IF d.sanitize THEN Sanitized(r, MaxPlayers(d.version)) ELSE r
        written == d.sanitize /\ Write(r)
        out == IF written THEN Append(d.out, [k |-> k, r |-> v, err |-> o])
               ELSE d.out
        ends == ~d.skip /\ d.header /\ EndsHeader(r)
        skip == d.skip \/ (ends /\ d.sanitize)
    IN  IF written /\ o # Nil
        THEN [d EXCEPT !.n = k, !.out = out, !.pc = "fatal", !.err = o]
        ELSE IF ends /\ ~d.sanitize
        THEN [d EXCEPT !.n = k, !.out = out, !.pc = "exit", !.err = errBreakEarly]
        ELSE [d EXCEPT !.n = k, !.out = out, !.skip = skip,
                       !.printed = IF skip THEN @ ELSE Append(@, Printed(k))]

\* data.ForEach decodes the next record and calls the callback with it
ForEach_Record ==
    /\ dump.pc = "ForEach"
    /\ dump.n < Len(dump.recs)
    /\ \E o \in {Nil, ErrWrite} :
          dump' = Callback(dump, dump.n + 1, dump.recs[dump.n + 1], o)
    /\ NoDumpChange

\* data.ForEach fails to decode what follows the records it has decoded
ForEach_Error ==
    /\ dump.pc = "ForEach"
    /\ Fatal(ErrDecode)
    /\ NoDumpChange

\* data.ForEach is at the end of the data: if e != nil { e.Close() }
ForEach_End ==
    /\ dump.pc = "ForEach"
    /\ dump.n = Len(dump.recs)
    /\ \E o \in IF dump.sanitize THEN {Nil, ErrWrite} ELSE {Nil} :
          IF o # Nil THEN Fatal(o) ELSE dump' = [dump EXCEPT !.pc = "exit"]
    /\ NoDumpChange

DumpNext ==
    \/ main_Create
    \/ ForEach_Record
    \/ ForEach_Error
    \/ ForEach_End

DumpSpec == DumpInit /\ [][DumpNext]_vars


TypeOK ==
    /\ cfg \in [ServerAddr: {"server", "server:6112"}, KeepAliveInterval: Intervals,
                VerifySignature: BOOLEAN,
                SHA1Auth: BOOLEAN, Password: {"pw"} \cup NewPasswords,
                CDKeys: CDKeySets]
    /\ bconn \in 0..MaxCalls
    /\ conn \in {"none", "open", "closed"}
    /\ op \in Ops \cup {None}
    /\ ncalls \in 0..MaxCalls
    /\ \A c \in Ctxs : srps[c].frees \in 0..2
    /\ channel \in {"", "text1", "text2"}
    /\ DOMAIN users \subseteq {"bob", "amy"}
    /\ \A k \in DOMAIN users : users[k] \in DOMAIN heap
    /\ now \in 0..MaxTime
    /\ present \subseteq {"bob", "amy"}
    /\ held.call \in {None, "User", "Users"}
    /\ runpc \in {"idle", "Run", "stop", "done"}
    /\ kapc \in {"none", "go", "select", "Send", "Stop", "exit"}
    /\ tick \in BOOLEAN
    /\ stop \in 0..1
    /\ say.err \in {Running, Nil, ErrClosed} \cup SendErrs
    /\ chatmut \in {"none", "onChatEvent", "callback"}
    /\ handler.pc \in {"idle", "locked", "Fire", "callback", "called", "return"}
    /\ dump.pc \in {"none", "start", "ForEach", "exit", "fatal"}
    /\ \A p \in ChatEvents \cup ChatNoise("EnterChat") :
          /\ p.Type \in ChatTypes
          /\ p.Username \in Usernames \cup {""}
          /\ p.UserFlags \in Variants

\* ================================================================ claims
Last(q) == q[Len(q)]
IsPrefix(a, b) == Len(a) <= Len(b) /\ \A i \in 1..Len(a) : a[i] = b[i]

Done == pc = "done"

\* the requests the call tried to send, in order, ping echoes aside
Requests ==
    LET q == SelectSeq(sent, LAMBDA x : x.p.type # "Ping")
    IN  [i \in 1..Len(q) |-> q[i].p.type]

Tried(t) == \E i \in 1..Len(sent) : sent[i].p.type = t
Delivered(t) == \E i \in 1..Len(sent) : sent[i].p.type = t /\ sent[i].err = Nil

\* the awaited responses the server gave in a step
Answer(step) ==
    {rcvd[i].p : i \in {j \in 1..Len(rcvd) :
                          rcvd[j].step = step /\ rcvd[j].p.type = Expected(step)}}

Answered(step) == Answer(step) # {}

\* the server accepted the logon proof but its counter-proof is wrong
BadCounterProof ==
    \E a \in Answer("LogonProof") :
        /\ a.val \in {LogonProofSuccess, LogonProofRequireEmail}
        /\ a.proof # "proofGood"

NothingAfterProof ==
    /\ conn = "closed"
    /\ ~Tried("EnterChatReq")
    /\ ~Tried("JoinChannel")
    /\ bconn = before.bconn

\* C1 as stated: when the server reports logon-proof success or require-email
\* with a counter-proof that does not verify, Logon returns
\* ErrPasswordVerification, closes the connection, sends neither enter-chat
\* nor join-channel and does not install the connection.
C1_AsStated ==
    (op = "Logon" /\ Done /\ BadCounterProof)
        => (result = ErrPasswordVerification /\ NothingAfterProof)

\* C1, amended: ... Logon fails, closes the connection, sends neither
\* enter-chat nor join-channel and does not install the connection; the error
\* is ErrPasswordVerification, except that in the require-email case a failed
\* set-email send ends the call with that send's error before the counter-proof
\* is verified.
C1_TrustOverride ==
    (op = "Logon" /\ Done /\ BadCounterProof)
        => /\ NothingAfterProof
           /\ \/ result = ErrPasswordVerification
              \/ /\ Answer("LogonProof") \subseteq
                        {a \in Responses("LogonProof") : a.val = LogonProofRequireEmail}
                 /\ Last(sent).p.type = "SetEmail"
                 /\ Last(sent).err \in SendErrs
                 /\ result = Last(sent).err

C1_Witness ==
    /\ op = "Logon" /\ Done /\ BadCounterProof
    /\ result = ErrPasswordVerification
    /\ Tried("SetEmail")

\* C2: a version/CD-key check response with a result other than success makes
\* the call return AuthResultToError of that result with the connection
\* closed, and neither the account-logon request nor any later request is sent.
C2_AuthCheckFailure ==
    \A a \in Answer("AuthCheck") :
        a.val # AuthSuccess
            => /\ Done
               /\ result = AuthResultToError(a.val)
               /\ conn = "closed"
               /\ Last(Requests) = "AuthCheckReq"
               /\ Last(sent).p.type = "AuthCheckReq"

C2_Witness ==
    /\ op = "Logon" /\ Done
    /\ Pkt("AuthCheckResp", "AuthCDKeyInUse", None) \in Answer("AuthCheck")
    /\ result = AuthResultToError("AuthCDKeyInUse")

\* C3: a call that returns an error after its connection was established has
\* closed that connection, and a failed send (the greeting write aside, whose
\* outcome the code does not look at) or a failed read is the error returned.
C3_ErrorCloses ==
    /\ (Done /\ result # Nil /\ conn # "none") => conn = "closed"
    /\ (sent # <<>> /\ Last(sent).err \in SendErrs)
          => (Done /\ result = Last(sent).err /\ conn = "closed")
    /\ rerr # Nil => (Done /\ result = rerr /\ conn = "closed")
    /\ \A i \in 1..Len(sent) - 1 : sent[i].err \notin SendErrs

C3_Witness ==
    /\ op = "Logon" /\ Done
    /\ sent # <<>>
    /\ Last(sent).p.type = "EnterChatReq"
    /\ result \in SendErrs
    /\ conn = "closed"

\* C4: Logon returns success only if the auth check, the account logon and
\* the logon proof (success or require-email) were answered with success, the
\* counter-proof verifies, an enter-chat response was received and the
\* join-channel request was sent without error.
C4_LogonSuccess ==
    (op = "Logon" /\ Done /\ result = Nil)
        => /\ Answer("AuthCheck") = {Pkt("AuthCheckResp", AuthSuccess, None)}
           /\ Answer("Logon") = {Pkt("AuthAccountLogonResp", LogonSuccess, None)}
           /\ \E a \in Answer("LogonProof") :
                 /\ Answer("LogonProof") = {a}
                 /\ a.val \in {LogonProofSuccess, LogonProofRequireEmail}
                 /\ a.proof = "proofGood"
           /\ Answered("EnterChat")
           /\ Delivered("JoinChannel")

C4_Witness ==
    /\ op = "Logon" /\ Done /\ result = Nil
    /\ bconn = ncalls
    /\ Len(fired) = MaxNoise

\* the fixed order of the requests of Logon
LogonSequence(email) ==
    <<"ProtocolGreeting", "AuthInfoReq", "AuthCheckReq", "AuthAccountLogonReq",
      "AuthAccountLogonProofReq">>
    \o (IF email THEN <<"SetEmail">> ELSE <<>>)
    \o <<"NetGamePort", "EnterChatReq", "JoinChannel">>

RequireEmail ==
    \E a \in Answer("LogonProof") : a.val = LogonProofRequireEmail

\* C5: the requests of a Logon call, ping echoes aside, are a prefix of the
\* fixed sequence (set-email only after a require-email proof result), none is
\* repeated, and each is sent only after the step before it was answered with
\* success.
C5_RequestOrder ==
    [](
        op = "Logon" =>
            /\ IsPrefix(Requests, LogonSequence(RequireEmail))
            /\ Tried("AuthCheckReq") => Answered("AuthInfo")
            /\ Tried("AuthAccountLogonReq")
                  => Answer("AuthCheck") = {Pkt("AuthCheckResp", AuthSuccess, None)}
            /\ Tried("AuthAccountLogonProofReq")
                  => Answer("Logon") = {Pkt("AuthAccountLogonResp", LogonSuccess, None)}
            /\ Tried("NetGamePort")
                  => \E a \in Answer("LogonProof") :
                        a.val \in {LogonProofSuccess, LogonProofRequireEmail}
            /\ Tried("JoinChannel") => Answered("EnterChat"))

C5_Witness ==
    /\ op = "Logon"
    /\ Requests = LogonSequence(TRUE)
    /\ \E i \in 1..Len(sent) : sent[i].p.type = "Ping"

\* the packets among the events fired, in order
FiredPackets ==
    SelectSeq(fired, LAMBDA e : e.type \notin {"AsyncError"} \cup Notifications)

\* the received packets that are neither the awaited response of their step
\* nor a ping of the auth-info step, in order
SideChannel ==
    LET q == SelectSeq(rcvd, LAMBDA r : /\ r.p.type # Expected(r.step)
                                        /\ ~(r.step = "AuthInfo" /\ r.p.type = "Ping"))
    IN  [i \in 1..Len(q) |-> q[i].p]

PingsOf(q) ==
    LET r == SelectSeq(q, LAMBDA x : x.p.type = "Ping")
    IN  [i \in 1..Len(r) |-> r[i].p]

\* C6: a step returns the first packet of the awaited type and reads nothing
\* after it; every other packet received is fired once, in arrival order,
\* except the pings of the auth-info step, which are echoed.
C6_WaitLoop ==
    [](
        /\ FiredPackets = SideChannel
        /\ PingsOf(sent) = PingsOf(SelectSeq(rcvd, LAMBDA r : r.step = "AuthInfo"))
        /\ \A i \in 1..Len(rcvd) :
              rcvd[i].p.type = Expected(rcvd[i].step)
                 => /\ resp[rcvd[i].step] = rcvd[i].p
                    /\ \A j \in 1..Len(rcvd) : j > i => rcvd[j].step # rcvd[i].step
        /\ \A step \in Steps :
              resp[step] # NoResp[step] => resp[step] \in Answer(step))

C6_Witness ==
    /\ Done /\ result = Nil /\ op = "Logon"
    /\ \E i \in 1..Len(rcvd) : rcvd[i].step = "AuthInfo" /\ rcvd[i].p.type = "Ping"
    /\ Len(FiredPackets) >= 1
    /\ resp["EnterChat"].val = "name#2"

\* C7 as stated: a ping received in any handshake step is sent back on the
\* connection that performs the handshake.
C7_PingsAnswered == PingsOf(sent) = PingsOf(rcvd)

\* C8: with signature verification enabled an auth-info response whose
\* signature does not verify ends the call with ErrInvalidServerSig, the
\* connection closed and no auth-check request sent; with verification
\* disabled the call goes on to the auth check whatever the signature is.
C8_Signature ==
    [][(pc = "WaitAuthInfo" /\ Len(rcvd') > Len(rcvd)
            /\ Last(rcvd').p.type = "AuthInfoResp")
        => IF cfg.VerifySignature /\ Last(rcvd').p.val # "sigGood"
           THEN /\ pc' = "done"
                /\ result' = ErrInvalidServerSig
                /\ conn' = "closed"
                /\ sent' = sent
                /\ "AuthCheckReq" \notin Range(Requests)
           ELSE /\ pc' = "SendAuthCheck"
                /\ result' = Running
                /\ conn' = "open"]_vars

C8_Witness ==
    /\ Done /\ result = ErrInvalidServerSig /\ cfg.VerifySignature
    /\ conn = "closed"
    /\ Answer("AuthInfo") = {Pkt("AuthInfoResp", "sigBad", None)}

HandshakeOp == op \in {"Logon", "CreateAccount", "ChangePassword"}

MalformedKey == \E i \in 1..Len(cfg.CDKeys) : cfg.CDKeys[i] = "malformed"

NoIO == conn = "none" /\ sent = <<>> /\ rcvd = <<>> /\ rerr = Nil

\* C9 as stated: with a malformed CD key, or when the password-proof context
\* cannot be created, the call fails before any network I/O.
C9_AsStated ==
    (HandshakeOp /\ (MalformedKey \/ result = ErrNLS)) => NoIO

\* C9, amended: when the password-proof context cannot be created the call
\* fails before any network I/O.  A malformed CD key is found only when the
\* auth-check request is built: no auth-check or later request is ever sent,
\* and the call that returns the key error has opened its connection, sent the
\* greeting and the auth-info request, received the auth-info response, and
\* closed the connection.
C9_InputErrors ==
    HandshakeOp =>
        /\ result = ErrNLS => (Done /\ NoIO)
        /\ MalformedKey => (Requests = <<>> \/ Last(Requests) \in
                                {"ProtocolGreeting", "AuthInfoReq"})
        /\ result = ErrCDKey
              => /\ MalformedKey /\ Done
                 /\ conn = "closed"
                 /\ Requests = <<"ProtocolGreeting", "AuthInfoReq">>
                 /\ Answered("AuthInfo")

C9_Witness ==
    /\ op = "ChangePassword" /\ Done /\ result = ErrCDKey
    /\ Len(rcvd) > 1

\* C10: every SRP context a call made is freed once, when the call returns,
\* and never more than once.
C10_SRPFreed ==
    [](
        \A c \in Ctxs :
            /\ srps[c].frees <= 1
            /\ srps[c].frees = 1 => (srps[c].made /\ Done)
            /\ (Done /\ srps[c].made) => srps[c].frees = 1)

C10_Witness ==
    /\ op = "ChangePassword" /\ Done /\ result = ErrNLS
    /\ srps["oldSRP"].made /\ srps["oldSRP"].frees = 1
    /\ ~srps["newSRP"].made

\* ------------------------------------------------------------ chat events
ShowTypes == {"ChatShowUser", "ChatJoin"}

\* Run handled the chat event p in this step
Handled(p) == Run_Dispatch(p)

\* the entries other than k are the same before and after the step
OthersKept(k) ==
    /\ DOMAIN users \ {k} = DOMAIN users' \ {k}
    /\ \A x \in DOMAIN users \ {k} : View'[x] = View[x]

\* C11: a user-shown or user-joined event for a name that is not in the map
\* fires exactly one UserJoined, with AlreadyInChannel true exactly for
\* user-shown; for a name in the map it fires exactly one UserUpdate and the
\* entry keeps its Joined.
C11_JoinOrUpdate ==
    [][\A p \in ChatEvents :
          (p.Type \in ShowTypes /\ Handled(p)) =>
             LET k == ToLower(p.Username) IN
             /\ Len(fired') = 1
             /\ k \in DOMAIN users'
             /\ fired'[1].User = View'[k]
             /\ IF k \notin DOMAIN users
                THEN /\ fired'[1].type = "UserJoined"
                     /\ fired'[1].AlreadyInChannel = (p.Type = "ChatShowUser")
                ELSE /\ fired'[1].type = "UserUpdate"
                     /\ View'[k].Joined = View[k].Joined]_vars

\* a user shown at time 1 as "Bob" was shown again at time 2 as "bOB"
C11_Witness ==
    /\ now = 2
    /\ fired = <<UserUpdate(NewUser("bOB", "text2", 2, 12, 1, 1))>>
    /\ DOMAIN users = {"bob"}
    /\ View["bob"].Joined = 1

\* C12: a channel-info event leaves an empty map and the text of the event as
\* channel name, whatever the state before; a user-shown event adds the key
\* of its name and removes no key, so that a channel-info event followed by
\* a roster leaves exactly the roster, every time it is played.
C12_ChannelInfo ==
    [][\A p \in ChatEvents :
          Handled(p) =>
             /\ p.Type = "ChatChannelInfo" =>
                   /\ DOMAIN users' = {}
                   /\ channel' = p.Text
                   /\ fired' = <<Channel(p.Text, p.ChannelFlags)>>
             /\ p.Type = "ChatShowUser" =>
                   DOMAIN users' = DOMAIN users \cup {ToLower(p.Username)}]_vars

\* the roster {amy, bob} after a channel-info event, the second user shown
\* at time 2
C12_Witness ==
    /\ channel = "text1"
    /\ DOMAIN users = {"amy", "bob"}
    /\ now = 2
    /\ Len(fired) = 1 /\ fired[1].type = "UserJoined" /\ fired[1].AlreadyInChannel

\* C13 as stated: a user-shown or user-joined event for a user in the map
\* replaces the entry by the values of the event, LastSeen being the time of
\* the event, and keeps Joined only.
C13_Replaced ==
    [][\A p \in ChatEvents :
          (p.Type \in ShowTypes /\ Handled(p) /\ ToLower(p.Username) \in DOMAIN users) =>
             LET k == ToLower(p.Username) IN
             View'[k] = NewUser(p.Username, p.Text, p.UserFlags, p.Ping,
                                View[k].Joined, now')]_vars

\* C14 as stated: every talk, emote or whisper event fires exactly one event,
\* Chat or Whisper, with the text of the chat event, whoever the sender is.
C14_Forwarded ==
    [][\A p \in ChatEvents :
          (p.Type \in {"ChatTalk", "ChatEmote", "ChatWhisper"} /\ Handled(p)) =>
             /\ Len(fired') = 1
             /\ fired'[1].type = IF p.Type = "ChatWhisper" THEN "Whisper" ELSE "Chat"
             /\ fired'[1].Content = p.Text]_vars

\* C15: after a user-left event the key of the name is not in the map; one
\* UserLeft with the entry as it was is fired if the user was in the map and
\* nothing otherwise; the other entries and the channel name stay.
C15_UserLeft ==
    [][\A p \in ChatEvents :
          (p.Type = "ChatLeave" /\ Handled(p)) =>
             LET k == ToLower(p.Username) IN
             /\ k \notin DOMAIN users'
             /\ fired' = IF k \in DOMAIN users THEN <<UserLeft(View[k])>> ELSE <<>>
             /\ OthersKept(k)
             /\ channel' = channel]_vars

\* bob, who had talked at time 2, left and amy stayed
C15_Witness ==
    /\ DOMAIN users = {"amy"}
    /\ Len(fired) = 1
    /\ fired[1].type = "UserLeft"
    /\ fired[1].User.Name = "bOB"
    /\ fired[1].User.LastSeen = 2

\* C16: a flags-changed event for a user in the map changes the Flags of that
\* entry and nothing else, and fires one UserUpdate with the entry; for a
\* user not in the map it changes nothing and fires nothing.
C16_FlagsUpdate ==
    [][\A p \in ChatEvents :
          (p.Type = "ChatUserFlagsUpdate" /\ Handled(p)) =>
             LET k == ToLower(p.Username) IN
             /\ OthersKept(k)
             /\ channel' = channel
             /\ IF k \in DOMAIN users
                THEN /\ k \in DOMAIN users'
                     /\ View'[k] = [View[k] EXCEPT !.Flags = p.UserFlags]
                     /\ fired' = <<UserUpdate(View'[k])>>
                ELSE /\ k \notin DOMAIN users'
                     /\ fired' = <<>>]_vars

\* amy, shown with flags 1 at time 1, has flags 2 after bob was shown at
\* time 2, and everything else of her entry is as it was
C16_Witness ==
    /\ now = 2
    /\ DOMAIN users = {"amy", "bob"}
    /\ fired = <<UserUpdate(NewUser("amy", "text1", 2, 11, 1, 1))>>
    /\ View["amy"] = fired[1].User

SystemTypes == {"ChatBroadcast", "ChatInfo", "ChatError"}
JoinErrorTypes == {"ChatChannelFull", "ChatChannelDoesNotExist", "ChatChannelRestricted"}

\* C17: a broadcast, info or error event fires one SystemMessage with the
\* text and the type of the event, a channel-full, channel-does-not-exist or
\* channel-restricted event one JoinError with them; the channel name and the
\* map stay.
C17_Forwarded ==
    [][\A p \in ChatEvents :
          (p.Type \in SystemTypes \cup JoinErrorTypes /\ Handled(p)) =>
             /\ fired' = IF p.Type \in SystemTypes
                         THEN <<SystemMessage(p.Text, p.Type)>>
                         ELSE <<JoinError(p.Text, p.Type)>>
             /\ channel' = channel
             /\ users' = users
             /\ View' = View]_vars

\* an error event was forwarded while two users were in the channel
C17_Witness ==
    /\ fired = <<SystemMessage("text2", "ChatError")>>
    /\ DOMAIN users = {"amy", "bob"}
    /\ channel = "text1"

\* ----------------------------------------------------- User() and Users()
\* the keys of the entries whose Name is name in some spelling
Spelled(name) == {k \in DOMAIN users : ToLower(View[k].Name) = ToLower(name)}

\* every key of the map is its entry's Name, lower-cased, and no two entries
\* have the same Name in different spellings
LowerCased ==
    /\ \A k \in DOMAIN users : k = ToLower(View[k].Name)
    /\ \A k \in DOMAIN users : Spelled(View[k].Name) = {k}

\* the application called User() in this step
Looked == held'.call = "User" /\ held'.age = 0 /\ UNCHANGED <<users, fired>>

\* Run handled a chat event in this step while the application held a result
Aged == held # NotHeld /\ held'.call = held.call /\ held'.age = held.age + 1

\* C18: every key of the map is the lower-cased Name of its entry, so a name
\* has one entry whatever its spelling in the chat events, and User(name)
\* finds that entry for any spelling of name.
C18_LowerCasedKeys ==
    [][/\ LowerCased /\ LowerCased'
       /\ \A name \in LookupNames :
             (Looked /\ User(name)) =>
                /\ held'.ok = (Spelled(name) # {})
                /\ held'.ok => \A k \in Spelled(name) : heap'[held'.ptr] = View[k]]_vars

\* User("BOB") returned the entry of the user shown as "Bob" and again as "bOB"
C18_Witness ==
    /\ held.call = "User" /\ held.ok /\ held.age = 0
    /\ heap[held.ptr] = NewUser("bOB", "text2", 2, 12, 1, 1)
    /\ DOMAIN users = {"bob"}
    /\ now = 2

\* C19: what User() and Users() returned is not changed by the chat events
\* handled later, and what the application writes into it does not change
\* the entries of the map, which is what a later User() or Users() returns.
C19_OwnedCopies ==
    [][/\ Aged =>
             /\ (held.call = "User" /\ held.ok) =>
                   /\ held'.ptr = held.ptr
                   /\ heap'[held.ptr] = heap[held.ptr]
             /\ held.call = "Users" => held'.res = held.res
       /\ Caller_Modify => (users' = users /\ View' = View)
       /\ (held.call = "User" /\ held.ok) => held.ptr \notin Live(users, NotHeld)]_vars

\* the application wrote into the User it holds, and the entry it was
\* copied from then got new flags from the server
C19_Witness ==
    /\ held.call = "User" /\ held.ok /\ held.age = 1
    /\ heap[held.ptr] = NewUser("amy", "text1", Scribble, 11, 1, 1)
    /\ fired = <<UserUpdate(NewUser("amy", "text1", 2, 11, 1, 1))>>
    /\ View["amy"] = fired[1].User

\* C20 as stated: no packet received while a handshake call is in progress
\* changes the channel name or the membership map.
C20_AfterHandshake ==
    [][(pc # "done" /\ Len(rcvd') > Len(rcvd)) =>
          (channel' = channel /\ users' = users)]_vars

\* ------------------------------------------------- Run and its keep-alive
\* Run has returned after stopping its keep-alive task
Stopped == runpc = "done" /\ kapc # "none"

\* C21: the stop function of the keep-alive task returns only after the task
\* has taken the stop signal, and from then on the task starts no Send,
\* whatever the order of ticks, sends in flight and the stop request
C21_StopSynchronous ==
    /\ [](Stopped => kapc \in {"Stop", "exit"})
    /\ [][Stopped => bsent' = bsent]_vars

\* Run returned while a tick was waiting, after a Send that failed
C21_Witness ==
    /\ Stopped /\ kapc = "exit" /\ tick
    /\ Len(bsent) = 2 /\ bsent[1].err # Nil

\* the task takes a tick
TickTaken == kapc = "select" /\ tick /\ ~tick'

\* a Send of the task returns
SendReturns == kapc = "Send" /\ kapc' # "Send"

\* C22: the keep-alive task sends one keep-alive per tick until it is
\* stopped; a failed Send never ends it: after a connection-closed error it
\* fires nothing, after any other error exactly one AsyncError, and either
\* way it is back waiting for the next tick or the stop signal
C22_KeepAlive ==
    [][/\ TickTaken <=> Len(bsent') > Len(bsent)
       /\ TickTaken =>
             bsent' = Append(bsent, [p |-> KeepAlive, err |-> Running])
       /\ SendReturns =>
             LET err == Last(bsent').err IN
             /\ kapc' = "select"
             /\ fired' = IF err = Nil \/ err = ErrClosed THEN fired
                         ELSE Append(fired, AsyncError("runKeepAlive[Send]", err))
       /\ (kapc' \in {"Stop", "exit"} /\ kapc # kapc') =>
             (kapc = "Stop" \/ (kapc = "select" /\ runpc = "stop"))]_vars

\* the task waits again after a Send that failed on a closed connection and
\* one that failed otherwise, having fired one AsyncError
C22_Witness ==
    /\ kapc = "select" /\ runpc = "Run"
    /\ Len(bsent) = 2
    /\ bsent[1].err = ErrClosed /\ bsent[2].err \in SendErrs
    /\ fired = <<AsyncError("runKeepAlive[Send]", bsent[2].err)>>

\* ---------------------------------------------------- FilterChat and Say
\* the runes that ranging over the string s yields
Runes(s) == {Rune(s[i].c) : i \in 1..Len(s)}

\* C23: when Say has returned, what it gave to the rate-limited send is
\* FilterChat of its argument and nothing else (nothing at all when that is
\* empty), and FilterChat of the argument is 254 bytes long at most and has
\* no rune that is not printable
C23_Filtered ==
    say.err # Running =>
        LET s == FilterChat(say.s) IN
        /\ \A i \in 1..Len(bsent) :
              /\ bsent[i].p = ChatCommand(s)
              /\ s # <<>>
        /\ Len(bsent) <= 1
        /\ (s # <<>>) => Len(bsent) = 1
        /\ ByteLen(s) <= 254
        /\ \A r \in Runes(s) : IsPrint(r)

\* Say sent a text that lost a control character and was cut inside a
\* character of two bytes
C23_Witness ==
    /\ say.err = Nil
    /\ \E i \in 1..Len(say.s) : say.s[i].c = "nl"
    /\ Len(bsent) = 1
    /\ ByteLen(bsent[1].p.val) = 254
    /\ bsent[1].p.val[Len(bsent[1].p.val)].c = "bad"

\* ------------------------------------------------------------ the Config
\* C24: the Config of the Client is immutable once a handshake call has
\* begun: no step of Dial, DialWithConn, Logon, CreateAccount or
\* ChangePassword changes a field of it
C24_ConfigImmutable == [][cfg' = cfg]_vars

\* ------------------------------------------------------------- timeouts
\* the call waits in the loop of a step, which has read a packet that was
\* not its response
InLoop ==
    /\ pc \in {"WaitAuthInfo", "WaitAuthCheck", "WaitLogon", "WaitLogonProof",
               "WaitEnterChat", "WaitCreateAccount", "WaitChangePass",
               "WaitChangePassProof"}
    /\ rcvd # <<>>
    /\ ~Matches(Last(rcvd).step, Last(rcvd).p)

\* a read of the call ends with a timeout
TimedOut == rerr = Nil /\ rerr' = ErrTimeout

\* the step reads its response
Responded ==
    /\ Len(rcvd') = Len(rcvd) + 1
    /\ Matches(Last(rcvd').step, Last(rcvd').p)

\* the step reads a ping and fails to echo it
EchoFailed ==
    /\ pc = "WaitAuthInfo"
    /\ Len(rcvd') = Len(rcvd) + 1 /\ Last(rcvd').p.type = "Ping"
    /\ Len(sent') = Len(sent) + 1 /\ Last(sent').err # Nil
    /\ result' = Last(sent').err

\* C25 as stated: only the first read of a step can time out, and a step
\* that has read a packet other than its response ends only with its
\* response or with a read error
C25_AsStated ==
    [][/\ TimedOut => ~InLoop
       /\ (InLoop /\ pc' # pc) => (Responded \/ rerr' # Nil)]_vars

\* C25, amended: only the first read of a step can time out, and a step that
\* has read a packet other than its response ends only with its response,
\* with a read error that is not a timeout or, for the auth-info step, with
\* the error of the Send that echoes a ping
C25_Timeouts ==
    [][/\ TimedOut => ~InLoop
       /\ (InLoop /\ pc' # pc) =>
             \/ Responded
             \/ rerr' \in ReadErrs \ {ErrTimeout}
             \/ EchoFailed]_vars

\* a step timed out on its first read, after the step before it had been
\* through its loop
C25_Witness ==
    /\ pc = "done" /\ rerr = ErrTimeout /\ result = ErrTimeout
    /\ \E i \in 1..Len(rcvd) : ~Matches(rcvd[i].step, rcvd[i].p)

\* -------------------------------------------------- the capi packet codec
\* C26: SerializePacket and then DeserializePacket on the same buffer give a
\* packet equal to the first, with a payload of the same type, and leave no
\* byte unread in the buffer
C26_RoundTrip ==
    capi.pc = "done" =>
        /\ capi.err = Nil
        /\ capi.pkt2 = capi.pkt
        /\ capi.pkt2.Payload.type = capi.pkt.Payload.type
        /\ capi.buf = <<>>

\* the round trip of a command that is not in the registry, with a map, a
\* status and a request id of two bytes
C26_Witness ==
    /\ capi.pc = "done"
    /\ capi.pkt.Command = RandomCommand
    /\ capi.pkt.Payload.fields # <<>>
    /\ capi.pkt.Status # <<>>
    /\ capi.pkt.RequestID > 255

\* ------------------------------------------------------ the membership map
KeepTypes == ChatTypes \ {"ChatChannelInfo", "ChatShowUser", "ChatJoin", "ChatLeave"}

\* C28: after any sequence of chat events the keys of the map are the
\* lower-cased names that were shown or joined after the last channel info
\* and have not left since; an event of any other type adds and removes no
\* key
C28_KeySet ==
    /\ [](DOMAIN users = present)
    /\ [][\A p \in ChatEvents :
            (p.Type \in KeepTypes /\ Handled(p)) => DOMAIN users' = DOMAIN users]_vars

\* amy is in the channel, and bob, who was, has just left
C28_Witness ==
    /\ DOMAIN users = {"amy"}
    /\ present = {"amy"}
    /\ Len(fired) = 1 /\ fired[1].type = "UserLeft"

\* ------------------------------------------------------- what Logon sets
\* C29: a Logon that returns an error leaves UniqueName and the installed
\* connection as they were when it was called; they are set, to the name of
\* the enter-chat response and to the connection of the call, only when
\* Logon succeeds, and that connection is then open
C29_LogonFrame ==
    op = "Logon" =>
        IF result = Nil
        THEN /\ UniqueName = resp["EnterChat"].val
             /\ bconn = ncalls
             /\ conn = "open"
        ELSE /\ UniqueName = before.UniqueName
             /\ bconn = before.bconn

\* a second Logon failed at its last request, after the enter-chat response;
\* the Client has the name and the connection of the first
C29_Witness ==
    /\ op = "Logon" /\ Done /\ result \notin {Nil, Running}
    /\ resp["EnterChat"].type = "EnterChatResp"
    /\ Tried("JoinChannel")
    /\ bconn = 1 /\ ncalls = 2
    /\ UniqueName = before.UniqueName /\ UniqueName # ""

\* ------------------------------------------------- what ChangePassword sets
ChangePassSuccess == Pkt("AuthAccountChangePassResp", LogonSuccess, None)

Deferred == op \in {"CreateAccount", "ChangePassword"}

\* C31: CreateAccount and ChangePassword have closed their connection when
\* they return, whatever they return, if one was opened; they never install
\* it as the connection of the Client and never change UniqueName; and
\* CreateAccount returns nil exactly when it got a create response whose
\* result is success.
C31_DeferredClose ==
    /\ (Deferred /\ Done /\ conn # "none") => conn = "closed"
    /\ Deferred => (bconn = before.bconn /\ UniqueName = before.UniqueName)
    /\ (op = "CreateAccount" /\ Done)
          => (result = Nil <=>
                \E a \in Answer("CreateAccount") : a.val = AccountCreateSuccess)

C31_Witness ==
    /\ op = "ChangePassword" /\ Done /\ result = Nil
    /\ conn = "closed"
    /\ ncalls = 2 /\ before.bconn = 1 /\ bconn = 1

\* the chat state holds what the notification e tells
Includes(e) ==
    CASE e.type = "Channel" -> channel = e.Name /\ users = NoUsers
      [] e.type \in {"UserJoined", "UserUpdate", "Chat"} ->
            Lookup(e.User.Name) = [ok |-> TRUE, u |-> e.User]
      [] e.type = "UserLeft" -> ~Lookup(e.User.Name).ok
      [] OTHER -> TRUE

\* the callback got from its call what the notification e tells
Saw(e, c, seen) ==
    CASE c.fn = "Channel" /\ e.type = "Channel" -> seen = e.Name
      [] c.fn = "User" /\ e.type \in {"UserJoined", "UserUpdate", "Chat"}
            /\ ToLower(c.name) = ToLower(e.User.Name) ->
            seen = [ok |-> TRUE, u |-> e.User]
      [] c.fn = "User" /\ e.type = "UserLeft"
            /\ ToLower(c.name) = ToLower(e.User.Name) -> ~seen.ok
      [] c.fn = "Users" /\ e.type \in {"UserJoined", "UserUpdate", "Chat"} ->
            /\ ToLower(e.User.Name) \in DOMAIN seen
            /\ seen[ToLower(e.User.Name)] = e.User
      [] c.fn = "Users" /\ e.type = "UserLeft" ->
            ToLower(e.User.Name) \notin DOMAIN seen
      [] c.fn = "Users" /\ e.type = "Channel" -> seen = NoUsers
      [] OTHER -> TRUE

\* C32: the handler of chat events does not hold chatmut when it fires a
\* notification, nor while the callback runs; the lock is free when the
\* callback asks for it in Channel(), User(), Users() or by firing another
\* chat event; and the chat state the callback finds, and what its call
\* returns, hold the update the notification tells of.
C32_FireUnlocked ==
    /\ handler.pc \in {"Fire", "callback", "called", "return"}
          => chatmut # "onChatEvent"
    /\ (handler.pc = "callback" /\ TakesLock(handler.call)) => chatmut = "none"
    /\ handler.pc = "callback" => Includes(handler.e)
    /\ (handler.pc = "return" /\ handler.call.fn # "Fire")
          => Saw(handler.e, handler.call, handler.seen)

C32_Witness ==
    /\ handler.pc = "return"
    /\ handler.e.type = "UserLeft"
    /\ handler.call = [fn |-> "User", name |-> "BOB"]
    /\ handler.seen = [ok |-> FALSE]
    /\ DOMAIN users = {"amy"}

Unprintable(s) == s # <<>> /\ \A i \in 1..Len(s) : ~IsPrint(Rune(s[i].c))

\* C34: when the text is empty after filtering, as the empty text and a text
\* of non-printable characters only are, Say has made no send, rate-limited
\* or not, and returned nil; otherwise it has made one send, a rate-limited
\* one, and returned what that send returned
C34_SayOnce ==
    /\ (say.s = <<>> \/ Unprintable(say.s)) => FilterChat(say.s) = <<>>
    /\ say.err # Running =>
          IF FilterChat(say.s) = <<>>
          THEN bsent = <<>> /\ say.err = Nil
          ELSE /\ Len(bsent) = 1
               /\ bsent[1].rl
               /\ say.err = bsent[1].err

\* Say returned nil without a send for a text of control characters
C34_Witness ==
    /\ say.err = Nil
    /\ Unprintable(say.s)
    /\ bsent = <<>>

\* ---------------------------------------------------------------- w3gdump
\* the numbers k of a sequence of write attempts or of what was printed
Numbers(q) == [i \in 1..Len(q) |-> q[i].k]

\* the numbers of 1..n that are in the set S, in order
Among(n, S) == SelectSeq([i \in 1..n |-> i], LAMBDA k : k \in S)

\* the records of the replay that are not chat messages
NonChat == {k \in 1..Len(dump.recs) : dump.recs[k].type # "ChatMessage"}

\* C35: with -sanitize, the records given to WriteRecord are the records
\* decoded so far that are not chat messages, each once and in the order of
\* the replay (a SlotInfo with its colours renumbered, any other as it was
\* decoded); only the last write can have failed, and then main has ended at
\* once with that error, the record not printed; and when main ends without
\* error every record of the replay has been decoded.
C35_Sanitize ==
    (dump.pc \in {"ForEach", "exit", "fatal"} /\ dump.sanitize) =>
        /\ Numbers(dump.out) = Among(dump.n, NonChat)
        /\ \A i \in 1..Len(dump.out) :
              /\ dump.out[i].r.type = dump.recs[dump.out[i].k].type
              /\ dump.out[i].r.type # "SlotInfo"
                    => dump.out[i].r = dump.recs[dump.out[i].k]
              /\ dump.out[i].err # Nil =>
                    /\ i = Len(dump.out)
                    /\ dump.pc = "fatal" /\ dump.err = dump.out[i].err
                    /\ dump.out[i].k = dump.n
                    /\ Printed(dump.n) \notin Range(dump.printed)
        /\ dump.pc = "exit" => dump.n = Len(dump.recs)

C35_Witness ==
    /\ dump.pc = "exit" /\ dump.sanitize /\ ~dump.header
    /\ Len(dump.recs) = 3
    /\ dump.recs[1].type = "SlotInfo" /\ dump.recs[2].type = "ChatMessage"
    /\ Numbers(dump.out) = <<1, 3>>
    /\ dump.out[1].r # dump.recs[1]

\* the number of the first record of the replay that is a countdown start,
\* a countdown end or a game start; 0 if there is none
FirstEnd ==
    LET S == {k \in 1..Len(dump.recs) :
                dump.recs[k].type \in {"CountDownStart", "CountDownEnd", "GameStart"}}
    IN  IF S = {} THEN 0 ELSE CHOOSE k \in S : \A j \in S : k <= j

\* the callback has been given the record that ends the header
PastHeader == FirstEnd # 0 /\ dump.n >= FirstEnd

\* the callback returned the error of WriteRecord for the last record it got
WriteFailed == dump.out # <<>> /\ Last(dump.out).err # Nil

\* C36: with -header, no record is printed that is or follows the first
\* countdown start, countdown end or game start, and every record before it
\* that the callback has returned from without error is; without -sanitize
\* that record is the last the callback is given and main ends without
\* error; with -sanitize the callback is given the records after it too,
\* and gives each that is not a chat message to WriteRecord, until a write
\* fails.
C36_HeaderOnly ==
    (dump.pc \in {"ForEach", "exit", "fatal"} /\ dump.header) =>
        /\ \A k \in 1..Len(dump.recs) :
              Printed(k) \in Range(dump.printed)
                 <=> /\ k <= dump.n
                     /\ FirstEnd = 0 \/ k < FirstEnd
                     /\ ~(k = dump.n /\ WriteFailed)
        /\ (PastHeader /\ ~dump.sanitize)
              => (dump.n = FirstEnd /\ dump.pc = "exit" /\ dump.err = errBreakEarly)
        /\ (PastHeader /\ dump.sanitize)
              => /\ (dump.n = FirstEnd /\ WriteFailed) \/ dump.skip
                 /\ \A k \in FirstEnd..dump.n :
                       dump.recs[k].type # "ChatMessage"
                          => \E i \in 1..Len(dump.out) : dump.out[i].k = k

\* with -header and -sanitize a record after the end of the header was
\* written and not printed
C36_Witness ==
    /\ dump.pc = "exit" /\ dump.header /\ dump.sanitize
    /\ FirstEnd = 1 /\ dump.recs[1].type = "CountDownEnd"
    /\ Len(dump.recs) = 3 /\ dump.recs[3].type = "GameStart"
    /\ Numbers(dump.out) = <<1, 2, 3>>
    /\ dump.printed = <<Header>>
====
